---- MODULE Spec2Model ----
(***************************************************************************)
(* A model of visualizer-hook's beat detection (utils/beatDetection):      *)
(* the BeatDetector energy tracker and the TempoAnalyzer beat history.     *)
(*                                                                         *)
(* Numbers.  The code computes in IEEE doubles.  Here a real quantity      *)
(* (energy, averageEnergy, delta, threshold) is an integer count of        *)
(* 1/Scale units and every division rounds to the nearest unit, as a       *)
(* double rounds to its nearest representable value.  Scale = 255^2 * 16,  *)
(* so (byte/255)^2 is exact.  decayRate is kept in hundredths.  NaN (what  *)
(* arithmetic on an out-of-range array read gives) is a value of its own   *)
(* that every operation propagates and every comparison rejects.           *)
(* Date.now() is a count of milliseconds; the model starts the clock at    *)
(* ClockBase instead of at today's epoch offset.                           *)
(***************************************************************************)
EXTENDS Integers, Sequences, FiniteSets, TLC

\* ------------------------------------------------------------ bounds

\* detect() calls (null frames included) in one behaviour of Spec.
MaxTicks == 3
\* updateOptions() calls in one behaviour of Spec.
MaxUpdates == 1
\* reset() calls in one behaviour of Spec or SpecStream.
MaxResets == 1
\* Frames fed after the warm-up in one behaviour of SpecStream.
MaxStreamTail == 4
\* addBeat() calls beyond the history's capacity in one run of SpecTempo.
MaxOverflow == 2
\* Inter-beat intervals of one run of SpecTempo that are not RegularInterval.
MaxIrregular == 1
\* The first clock reading (ms); larger than every minTimeBetweenBeats drawn.
ClockBase == 1000
\* Bins per frame (analyser.frequencyBinCount) and the context's sample rate.
BufferLength == 16
SampleRate == 44100

\* ------------------------------------------------------------ numbers

Scale == 255 * 255 * 16

NaN == 0 - Scale * 1024

IsNaN(x) == x = NaN

\* n/d as a count of 1/Scale units.
Frac(n, d) == (n * Scale) \div d

\* x / d rounded to the nearest unit (d > 0).
RoundDiv(x, d) == IF IsNaN(x) THEN NaN ELSE (2 * x + d) \div (2 * d)

Plus(a, b) == IF IsNaN(a) \/ IsNaN(b) THEN NaN ELSE a + b

Minus(a, b) == IF IsNaN(a) \/ IsNaN(b) THEN NaN ELSE a - b

\* a > b as JavaScript evaluates it: false when either side is NaN.
Gt(a, b) == ~IsNaN(a) /\ ~IsNaN(b) /\ a > b

RECURSIVE SumRange(_, _, _)
\* s[lo] + ... + s[hi], halving the range.
SumRange(s, lo, hi) ==
  IF lo > hi THEN 0
  ELSE IF lo = hi THEN s[lo]
  ELSE LET mid == (lo + hi) \div 2
       IN Plus(SumRange(s, lo, mid), SumRange(s, mid + 1, hi))

\* reduce((sum, e) => sum + e, 0)
SumSeq(s) == SumRange(s, 1, Len(s))

Zeros(n) == [i \in 1..n |-> 0]

\* The last n entries of s (all of s when it is shorter).
LastN(s, n) == IF Len(s) <= n THEN s ELSE SubSeq(s, Len(s) - n + 1, Len(s))

\* {...a, ...b}: b's own keys override a's, a's other keys are kept.
Spread(a, b) ==
  [k \in (DOMAIN a) \cup (DOMAIN b) |-> IF k \in DOMAIN b THEN b[k] ELSE a[k]]

\* The object with no keys.
EmptyObject == [k \in {} |-> 0]

\* ------------------------------------------------------------ frames

\* null, as a value comparable with an object.
Null == [null |-> TRUE]

\* An AudioData whose frequency bins all hold the byte `level`.
FlatFrame(level) ==
  [frequencyData |-> [i \in 1..BufferLength |-> level],
   bufferLength |-> BufferLength,
   audioContext |-> [sampleRate |-> SampleRate]]

\* An AudioData whose bin i (0-based) holds the byte (40 * i) % 256.
RampFrame ==
  [frequencyData |-> [i \in 1..BufferLength |-> (40 * (i - 1)) % 256],
   bufferLength |-> BufferLength,
   audioContext |-> [sampleRate |-> SampleRate]]

\* Bytes giving band energy (57/255)^2 ~ 0.05 and (180/255)^2 ~ 0.5.
LowLevel == 57
SpikeLevel == 180

LowFrame == FlatFrame(LowLevel)
SpikeFrame == FlatFrame(SpikeLevel)

\* The frames a tick of Spec draws from.
Frames == {SpikeFrame, RampFrame}

\* frequencyData[i] with JavaScript's 0-based index; undefined/255 is NaN.
BinPower(frame, i) ==
  IF i >= 0 /\ i < Len(frame.frequencyData)
  THEN frame.frequencyData[i + 1] * frame.frequencyData[i + 1] * 16
  ELSE NaN

\* ------------------------------------------------------------ BeatDetector

historySize == 43

DefaultOptions ==
  [threshold |-> Frac(15, 100),
   decayRate |-> 98,
   minTimeBetweenBeats |-> 250,
   frequencyRange |-> [low |-> 60, high |-> 120]]

\* new BeatDetector(options): each absent option takes its default.
BeatDetector(options) ==
  [options |->
     [threshold |->
        IF "threshold" \in DOMAIN options THEN options.threshold
        ELSE DefaultOptions.threshold,
      decayRate |->
        IF "decayRate" \in DOMAIN options THEN options.decayRate
        ELSE DefaultOptions.decayRate,
      minTimeBetweenBeats |->
        IF "minTimeBetweenBeats" \in DOMAIN options
        THEN options.minTimeBetweenBeats
        ELSE DefaultOptions.minTimeBetweenBeats,
      frequencyRange |->
        IF "frequencyRange" \in DOMAIN options THEN options.frequencyRange
        ELSE DefaultOptions.frequencyRange],
   averageEnergy |-> 0,
   lastBeatTime |-> 0,
   energyHistory |-> Zeros(historySize)]

\* A detect(null) that falls through and records a silent frame.
DetectNullRecordsSilence(self, currentTime) ==
  [self |-> [self EXCEPT !.energyHistory = Tail(Append(@, 0))],
   ret |-> [isBeat |-> FALSE, energy |-> 0, averageEnergy |-> 0, delta |-> 0,
            time |-> currentTime]]

\* detect(null): the early return; `self` is not touched.
DetectNull(self, currentTime) ==
  [self |-> self,
   ret |-> [isBeat |-> FALSE, energy |-> 0, averageEnergy |-> 0, delta |-> 0,
            time |-> currentTime]]

\* Math.floor(f * bufferLength / nyquist), nyquist = sampleRate / 2.
LowIndex(self, frame) ==
  (self.options.frequencyRange.low * frame.bufferLength * 2)
    \div frame.audioContext.sampleRate

\* Math.ceil(f * bufferLength / nyquist).
HighIndex(self, frame) ==
  (self.options.frequencyRange.high * frame.bufferLength * 2
     + frame.audioContext.sampleRate - 1)
    \div frame.audioContext.sampleRate

\* A band sum that walks the bins between the two indices in either order.
BandSumEitherWay(frame, lo, hi) ==
  LET a == IF lo < hi THEN lo ELSE hi
      b == IF lo < hi THEN hi ELSE lo
  IN SumSeq([i \in 1..(b - a + 1) |-> BinPower(frame, a + i - 1)])

RECURSIVE BandSum(_, _, _)
\* for (i = lo; i <= hi; i++) energy += (frequencyData[i] / 255) ^ 2
BandSum(frame, lo, hi) ==
  IF lo > hi THEN 0
  ELSE Plus(BinPower(frame, lo), BandSum(frame, lo + 1, hi))

\* A band energy that divides by the distance of the two indices.
BandEnergyByDistance(self, frame) ==
  LET lowIndex == LowIndex(self, frame)
      highIndex == HighIndex(self, frame)
      energy == BandSum(frame, lowIndex, highIndex)
  IN IF highIndex > lowIndex
     THEN RoundDiv(energy, highIndex - lowIndex)
     ELSE energy

\* The band energy: the sum, averaged when the band has more than one bin.
BandEnergy(self, frame) ==
  LET lowIndex == LowIndex(self, frame)
      highIndex == HighIndex(self, frame)
      energy == BandSum(frame, lowIndex, highIndex)
  IN IF highIndex > lowIndex
     THEN RoundDiv(energy, highIndex - lowIndex + 1)
     ELSE energy

\* A history that drops its newest entry instead of its oldest.
PushHistoryDropsNewest(history, energy) ==
  SubSeq(Append(history, energy), 1, Len(history))

\* energyHistory.push(energy); energyHistory.shift()
PushHistory(history, energy) == Tail(Append(history, energy))

\* averageEnergy * decayRate + historyMean * (1 - decayRate)
DecayBlend(averageEnergy, historyMean, decayRate) ==
  IF IsNaN(averageEnergy) \/ IsNaN(historyMean) THEN NaN
  ELSE RoundDiv(averageEnergy * decayRate + historyMean * (100 - decayRate), 100)

\* A beat test without the refractory condition.
IsBeatWithoutRefractory(self, delta, currentTime) ==
  Gt(delta, self.options.threshold)

\* delta > threshold && (currentTime - lastBeatTime) > minTimeBetweenBeats
IsBeat(self, delta, currentTime) ==
  /\ Gt(delta, self.options.threshold)
  /\ currentTime - self.lastBeatTime > self.options.minTimeBetweenBeats

\* A detect() that never records the time of a beat.
NextLastBeatTimeNeverSet(self, isBeat, currentTime) == self.lastBeatTime

\* if (isBeat) this.lastBeatTime = currentTime
NextLastBeatTime(self, isBeat, currentTime) ==
  IF isBeat THEN currentTime ELSE self.lastBeatTime

\* detect(audioData) on a frame, at clock reading currentTime.
DetectFrame(self, frame, currentTime) ==
  LET energy == BandEnergy(self, frame)
      history == PushHistory(self.energyHistory, energy)
      historyMean == RoundDiv(SumSeq(history), historySize)
      averageEnergy ==
        DecayBlend(self.averageEnergy, historyMean, self.options.decayRate)
      delta == Minus(energy, averageEnergy)
      isBeat == IsBeat(self, delta, currentTime)
  IN [self |->
        [options |-> self.options,
         averageEnergy |-> averageEnergy,
         lastBeatTime |-> NextLastBeatTime(self, isBeat, currentTime),
         energyHistory |-> history],
      ret |-> [isBeat |-> isBeat, energy |-> energy,
               averageEnergy |-> averageEnergy, delta |-> delta,
               time |-> currentTime]]

BeatDetector_detect(self, audioData, currentTime) ==
  IF audioData = Null
  THEN DetectNull(self, currentTime)
  ELSE DetectFrame(self, audioData, currentTime)

\* A reset() that rebuilds the detector with the default options.
ResetToDefaults(self) ==
  [options |-> DefaultOptions,
   averageEnergy |-> 0,
   lastBeatTime |-> 0,
   energyHistory |-> Zeros(historySize)]

\* A reset() that keeps the time of the last beat.
ResetKeepsLastBeatTime(self) ==
  [options |-> self.options,
   averageEnergy |-> 0,
   lastBeatTime |-> self.lastBeatTime,
   energyHistory |-> Zeros(historySize)]

BeatDetector_reset(self) ==
  [options |-> self.options,
   averageEnergy |-> 0,
   lastBeatTime |-> 0,
   energyHistory |-> Zeros(historySize)]

\* A shallow merge: a provided frequencyRange replaces the old one whole.
MergeOptionsShallow(current, options) == Spread(current, options)

\* { ...this.options, ...options,
\*   frequencyRange: { ...this.options.frequencyRange,
\*                     ...(options.frequencyRange || {}) } }
MergeOptions(current, options) ==
  [Spread(current, options) EXCEPT
     !.frequencyRange =
        Spread(current.frequencyRange,
               IF "frequencyRange" \in DOMAIN options
               THEN options.frequencyRange ELSE EmptyObject)]

BeatDetector_updateOptions(self, options) ==
  [self EXCEPT !.options = MergeOptions(self.options, options)]

\* ------------------------------------------------------------ TempoAnalyzer

maxHistorySize == 24

\* Math.round(60000 / 0)
Infinity == Scale * 1024

\* An addBeat() that never evicts.
AddBeatUnbounded(beatTimes, time) == Append(beatTimes, time)

\* addBeat(time): push, then drop the oldest entry beyond maxHistorySize.
TempoAnalyzer_addBeat(beatTimes, time) ==
  LET pushed == Append(beatTimes, time)
  IN IF Len(pushed) > maxHistorySize THEN Tail(pushed) ELSE pushed

\* beatTimes[i] - beatTimes[i - 1] for i = 1 .. length - 1 (0-based).
Intervals(beatTimes) ==
  [i \in 1..(Len(beatTimes) - 1) |-> beatTimes[i + 1] - beatTimes[i]]

\* A conversion that truncates instead of rounding.
RoundedBpmTruncating(sum, count) ==
  IF sum = 0 THEN Infinity ELSE (60000 * count) \div sum

\* Math.round(60000 * count / sum): to the nearest integer, halves upwards.
RoundedBpm(sum, count) ==
  IF sum = 0 THEN Infinity
  ELSE IF sum > 0 THEN (2 * 60000 * count + sum) \div (2 * sum)
  ELSE 0 - ((2 * 60000 * count - sum - 1) \div (2 * (0 - sum)))

\* A tempo taken from the mean of all the intervals, outliers included.
TempoFromAllIntervals(intervals) ==
  RoundedBpm(SumSeq(intervals), Len(intervals))

\* A filter that keeps only the intervals strictly inside the bounds.
FilteredIntervalsStrict(intervals) ==
  LET sorted == SortSeq(intervals, LAMBDA a, b : a < b)
      q1 == sorted[Len(sorted) \div 4 + 1]
      q3 == sorted[(3 * Len(sorted)) \div 4 + 1]
      iqr == q3 - q1
  IN SelectSeq(intervals,
               LAMBDA i : 2 * i > 2 * q1 - 3 * iqr /\ 2 * i < 2 * q3 + 3 * iqr)

\* The interquartile filter: the intervals within 1.5 * iqr of the two
\* quartiles (bounds doubled, so 1.5 * iqr stays an integer).
FilteredIntervals(intervals) ==
  LET sorted == SortSeq(intervals, LAMBDA a, b : a < b)
      q1Index == Len(sorted) \div 4
      q3Index == (3 * Len(sorted)) \div 4
      q1 == sorted[q1Index + 1]
      q3 == sorted[q3Index + 1]
      iqr == q3 - q1
      lowerBound2 == 2 * q1 - 3 * iqr
      upperBound2 == 2 * q3 + 3 * iqr
  IN SelectSeq(intervals, LAMBDA i : 2 * i >= lowerBound2 /\ 2 * i <= upperBound2)

\* The mean of the intervals the filter keeps, as beats per minute; 0 when
\* it keeps none.
TempoFromIntervals(intervals) ==
  LET filteredIntervals == FilteredIntervals(intervals)
  IN IF Len(filteredIntervals) = 0 THEN 0
     ELSE RoundedBpm(SumSeq(filteredIntervals), Len(filteredIntervals))

\* A getTempo() that answers from 2 timestamps on.
TempoOfFromTwo(beatTimes) ==
  IF Len(beatTimes) < 2 THEN 0 ELSE TempoFromIntervals(Intervals(beatTimes))

\* The value getTempo() returns.
TempoOf(beatTimes) ==
  IF Len(beatTimes) < 4 THEN 0 ELSE TempoFromIntervals(Intervals(beatTimes))

\* A getTempo() that consumes the oldest timestamp it reads.
GetTempoConsuming(beatTimes) ==
  [self |-> IF Len(beatTimes) < 4 THEN beatTimes ELSE Tail(beatTimes),
   ret |-> TempoOf(beatTimes)]

\* getTempo(): the beatTimes it leaves behind and the value it returns.
TempoAnalyzer_getTempo(beatTimes) ==
  [self |-> beatTimes, ret |-> TempoOf(beatTimes)]

TempoAnalyzer_reset(beatTimes) == <<>>

\* ------------------------------------------------------------ createBeatAnalyzer

\* An analyzeBeat() that reads the tempo before it records the beat.
AnalyzeBeatTempoFirst(detector, beatTimes, audioData, currentTime) ==
  LET d == BeatDetector_detect(detector, audioData, currentTime)
  IN [detector |-> d.self,
      analyzer |-> IF d.ret.isBeat
                   THEN TempoAnalyzer_addBeat(beatTimes, d.ret.time)
                   ELSE beatTimes,
      beatInfo |-> d.ret,
      tempo |-> TempoAnalyzer_getTempo(beatTimes).ret]

\* analyzeBeat(audioData): detect, addBeat(beatInfo.time) on a beat, then
\* getTempo(); the result is {...beatInfo, tempo}.
createBeatAnalyzer_analyzeBeat(detector, beatTimes, audioData, currentTime) ==
  LET d == BeatDetector_detect(detector, audioData, currentTime)
      recorded == IF d.ret.isBeat
                  THEN TempoAnalyzer_addBeat(beatTimes, d.ret.time)
                  ELSE beatTimes
      t == TempoAnalyzer_getTempo(recorded)
  IN [detector |-> d.self, analyzer |-> t.self,
      beatInfo |-> d.ret, tempo |-> t.ret]

\* reset(): detector.reset(); analyzer.reset()
createBeatAnalyzer_reset(detector, beatTimes) ==
  [detector |-> BeatDetector_reset(detector),
   analyzer |-> TempoAnalyzer_reset(beatTimes)]

\* updateOptions(newOptions): detector.updateOptions(newOptions)
createBeatAnalyzer_updateOptions(detector, beatTimes, newOptions) ==
  [detector |-> BeatDetector_updateOptions(detector, newOptions),
   analyzer |-> beatTimes]

\* ------------------------------------------------------------ audioProcessor

\* The numbers processAudioData() and calculateSpectrumCharacteristics()
\* return are exact fractions num/den (den > 0), or NaN.
Rat(n, d) == [num |-> n, den |-> d]

RatNaN == [nan |-> TRUE]

IsRatNaN(x) == x = RatNaN

RatAdd(a, b) ==
  IF IsRatNaN(a) \/ IsRatNaN(b) THEN RatNaN
  ELSE IF a.den = b.den THEN Rat(a.num + b.num, a.den)
  ELSE Rat(a.num * b.den + b.num * a.den, a.den * b.den)

\* Math.abs
RatAbs(a) ==
  IF IsRatNaN(a) THEN RatNaN
  ELSE Rat(IF a.num < 0 THEN 0 - a.num ELSE a.num, a.den)

\* a > b, false when either side is NaN.
RatGt(a, b) ==
  ~IsRatNaN(a) /\ ~IsRatNaN(b) /\ a.num * b.den > b.num * a.den

\* array[i] for a 0-based i: undefined past the end, which the arithmetic
\* and the comparisons that follow treat as NaN.
RawAt(array, i) == IF i >= 0 /\ i < Len(array) THEN array[i + 1] ELSE NaN

\* A scan that lets a later bin of equal magnitude win.
ScanStepLastWins(best, value, i) ==
  IF ~IsNaN(value) /\ value >= best.maxFrequencyValue
  THEN [maxFrequencyValue |-> value, maxFrequencyIndex |-> i]
  ELSE best

\* if (value > maxFrequencyValue) { maxFrequencyValue = value; maxFrequencyIndex = i; }
ScanStep(best, value, i) ==
  IF Gt(value, best.maxFrequencyValue)
  THEN [maxFrequencyValue |-> value, maxFrequencyIndex |-> i]
  ELSE best

RECURSIVE ScanMax(_, _, _, _)
\* The first loop, from bin i on.
ScanMax(frequencyData, bufferLength, i, best) ==
  IF i >= bufferLength THEN best
  ELSE ScanMax(frequencyData, bufferLength, i + 1,
               ScanStep(best, RawAt(frequencyData, i), i))

\* A mapping that leaves the samples centred at 128.
TimeLevelUncentred(value) ==
  IF IsNaN(value) THEN RatNaN ELSE Rat(value, 128)

\* (value / 128) - 1
TimeLevel(value) ==
  IF IsNaN(value) THEN RatNaN ELSE Rat(value - 128, 128)

RECURSIVE VolumeSum(_, _)
\* volumeSum after the first n entries of processedTimeData.
VolumeSum(processedTimeData, n) ==
  IF n = 0 THEN Rat(0, 128)
  ELSE RatAdd(VolumeSum(processedTimeData, n - 1), RatAbs(processedTimeData[n]))

\* volumeSum / bufferLength (volumeSum is 0 when bufferLength is 0: 0 / 0).
Volume(volumeSum, bufferLength) ==
  IF IsRatNaN(volumeSum) \/ bufferLength = 0 THEN RatNaN
  ELSE Rat(volumeSum.num, volumeSum.den * bufferLength)

\* An activity test that also fires at the threshold.
IsActiveFromThreshold(volume) ==
  ~IsRatNaN(volume) /\ volume.num * 20 >= volume.den

\* volume > 0.05
IsActive(volume) == RatGt(volume, Rat(1, 20))

\* A division by the full scale instead of the frame's maximum.
NormalizeLevelByFullScale(value, maxFrequencyValue) ==
  IF IsNaN(value) THEN RatNaN ELSE Rat(value, 255)

\* processedFrequencyData[i] / maxFrequencyValue (maxFrequencyValue > 0)
NormalizeLevel(value, maxFrequencyValue) ==
  IF IsNaN(value) THEN RatNaN ELSE Rat(value, maxFrequencyValue)

\* Math.log(Math.max(level, 0.001) * 9 + 1) / Math.log(10), kept as the
\* fraction the logarithm is taken of.
LogLevel(level) ==
  IF IsRatNaN(level) THEN RatNaN
  ELSE [log10 |->
          LET floored == IF RatGt(Rat(1, 1000), level) THEN Rat(1, 1000) ELSE level
          IN Rat(floored.num * 9 + floored.den, floored.den)]

\* The raw magnitude as the loop copies it (undefined past the end).
RawLevel(value) == IF IsNaN(value) THEN RatNaN ELSE Rat(value, 1)

\* A level that takes the logarithmic scale whether or not it was
\* normalized.
FrequencyLevelLogOutside(value, normalize, logarithmic, maxFrequencyValue) ==
  LET level == IF normalize /\ maxFrequencyValue > 0
               THEN NormalizeLevel(value, maxFrequencyValue)
               ELSE RawLevel(value)
  IN IF logarithmic THEN LogLevel(level) ELSE level

\* processedFrequencyData[i]: the copy of the magnitude, divided by the
\* maximum and then scaled logarithmically only inside
\* `if (normalize && maxFrequencyValue > 0)`.
FrequencyLevel(value, normalize, logarithmic, maxFrequencyValue) ==
  IF normalize /\ maxFrequencyValue > 0
  THEN IF logarithmic
       THEN LogLevel(NormalizeLevel(value, maxFrequencyValue))
       ELSE NormalizeLevel(value, maxFrequencyValue)
  ELSE RawLevel(value)

\* maxFrequencyIndex * nyquist / bufferLength
DominantFrequency(maxFrequencyIndex, sampleRate, bufferLength) ==
  IF bufferLength = 0 THEN RatNaN
  ELSE Rat(maxFrequencyIndex * sampleRate, 2 * bufferLength)

processAudioData(audioData, procOptions) ==
  LET normalize ==
        IF "normalize" \in DOMAIN procOptions THEN procOptions.normalize ELSE TRUE
      logarithmic ==
        IF "logarithmic" \in DOMAIN procOptions THEN procOptions.logarithmic ELSE FALSE
      frequencyData == audioData.frequencyData
      timeData == audioData.timeData
      bufferLength == audioData.bufferLength
      scan == ScanMax(frequencyData, bufferLength, 0,
                      [maxFrequencyValue |-> 0, maxFrequencyIndex |-> 0])
      maxFrequencyValue == scan.maxFrequencyValue
      maxFrequencyIndex == scan.maxFrequencyIndex
      processedTimeData ==
        [i \in 1..bufferLength |-> TimeLevel(RawAt(timeData, i - 1))]
      volume == Volume(VolumeSum(processedTimeData, bufferLength), bufferLength)
      processedFrequencyData ==
        [i \in 1..bufferLength |->
           FrequencyLevel(RawAt(frequencyData, i - 1), normalize, logarithmic,
                          maxFrequencyValue)]
  IN [frequencyData |-> processedFrequencyData,
      timeData |-> processedTimeData,
      volume |-> volume,
      peakLevel |-> Rat(maxFrequencyValue, 255),
      isActive |-> IsActive(volume),
      dominant |->
        [frequency |-> DominantFrequency(maxFrequencyIndex,
                                         audioData.audioContext.sampleRate,
                                         bufferLength),
         amplitude |-> Rat(maxFrequencyValue, 255),
         index |-> maxFrequencyIndex]]

\* Math.round(x) of num/den for den > 0: to the nearest integer, halves upwards.
RoundRat(num, den) ==
  IF num >= 0 THEN (2 * num + den) \div (2 * den)
  ELSE 0 - ((0 - 2 * num + den - 1) \div (2 * den))

\* Math.round(bands[i] * bufferLength / nyquist)
BandIndex(band, bufferLength, sampleRate) ==
  RoundRat(2 * band * bufferLength, sampleRate)

\* Math.min
Min(a, b) == IF a < b THEN a ELSE b

\* frequencyData[Math.min(index, bufferLength - 1)]
extractFrequencyBands(frequencyData, bands, sampleRate, bufferLength) ==
  [i \in 1..Len(bands) |->
     RawAt(frequencyData,
           Min(BandIndex(bands[i], bufferLength, sampleRate), bufferLength - 1))]

RECURSIVE Pow(_, _)
Pow(b, e) == IF e = 0 THEN 1 ELSE b * Pow(b, e - 1)

RECURSIVE AmplitudeSum(_, _)
\* sum after the first n bins.
AmplitudeSum(frequencyData, n) ==
  IF n = 0 THEN 0 ELSE AmplitudeSum(frequencyData, n - 1) + frequencyData[n]

RECURSIVE WeightedBins(_, _)
\* weightedSum after the first n bins, in units of nyquist / bufferLength.
WeightedBins(frequencyData, n) ==
  IF n = 0 THEN 0
  ELSE WeightedBins(frequencyData, n - 1) + (n - 1) * frequencyData[n]

RECURSIVE AmplitudeProduct(_, _)
\* product after the first n bins: if (amplitude > 0) product *= amplitude.
AmplitudeProduct(frequencyData, n) ==
  IF n = 0 THEN 1
  ELSE AmplitudeProduct(frequencyData, n - 1) *
       (IF frequencyData[n] > 0 THEN frequencyData[n] ELSE 1)

\* A centroid without the guard on the total amplitude.
CentroidUnguarded(weightedBins, sum, sampleRate, bufferLength) ==
  IF sum = 0 \/ bufferLength = 0 THEN RatNaN
  ELSE Rat(weightedBins * sampleRate, 2 * bufferLength * sum)

\* sum > 0 ? weightedSum / sum : 0
Centroid(weightedBins, sum, sampleRate, bufferLength) ==
  IF sum > 0 THEN Rat(weightedBins * sampleRate, 2 * bufferLength * sum)
  ELSE Rat(0, 1)

RECURSIVE SquaredDeviations(_, _, _, _)
\* Sum of amplitude * (i * sum - weightedBins)^2 over the first n bins:
\* sum^2 times the spread accumulator, in units of nyquist / bufferLength.
SquaredDeviations(frequencyData, n, sum, weightedBins) ==
  IF n = 0 THEN 0
  ELSE SquaredDeviations(frequencyData, n - 1, sum, weightedBins) +
       frequencyData[n] * ((n - 1) * sum - weightedBins) * ((n - 1) * sum - weightedBins)

\* Math.sqrt(spread / sum) when sum > 0, else the initial 0. The square
\* root is kept as the fraction under it and the unit it multiplies.
SpectralSpread(frequencyData, sum, weightedBins, sampleRate) ==
  IF sum > 0
  THEN [sqrt |-> Rat(SquaredDeviations(frequencyData, Len(frequencyData), sum, weightedBins),
                     sum * sum * sum),
        times |-> Rat(sampleRate, 2 * Len(frequencyData))]
  ELSE Rat(0, 1)

\* arithmeticMean > 0 ? geometricMean / arithmeticMean : 0, with
\* geometricMean = product^(1/bufferLength): the root is kept as its degree
\* and the fraction under it.
Flatness(product, sum, bufferLength) ==
  IF bufferLength > 0 /\ sum > 0
  THEN [root |-> bufferLength,
        of |-> Rat(product * Pow(bufferLength, bufferLength), Pow(sum, bufferLength))]
  ELSE Rat(0, 1)

calculateSpectrumCharacteristics(frequencyData, sampleRate) ==
  LET bufferLength == Len(frequencyData)
      sum == AmplitudeSum(frequencyData, bufferLength)
      weightedBins == WeightedBins(frequencyData, bufferLength)
      product == AmplitudeProduct(frequencyData, bufferLength)
  IN [centroid |-> Centroid(weightedBins, sum, sampleRate, bufferLength),
      spread |-> SpectralSpread(frequencyData, sum, weightedBins, sampleRate),
      flatness |-> Flatness(product, sum, bufferLength)]

\* ------------------------------------------------------------ useProcessedAudioData

RECURSIVE Gcd(_, _)
Gcd(a, b) == IF b = 0 THEN a ELSE Gcd(b, a % b)

\* The same number in lowest terms.
RatReduce(a) ==
  IF IsRatNaN(a) THEN RatNaN
  ELSE LET g == Gcd(IF a.num < 0 THEN 0 - a.num ELSE a.num, a.den)
       IN Rat(a.num \div g, a.den \div g)

RatMul(a, b) ==
  IF IsRatNaN(a) \/ IsRatNaN(b) THEN RatNaN
  ELSE Rat(a.num * b.num, a.den * b.den)

\* Math.min(Math.max(options.smoothing, 0), 1)
SmoothingFactor(smoothing) ==
  IF RatGt(Rat(0, 1), smoothing) THEN Rat(0, 1)
  ELSE IF RatGt(smoothing, Rat(1, 1)) THEN Rat(1, 1)
  ELSE smoothing

\* (smoothingFactor * previous) + (inverseFactor * current)
Blend(smoothingFactor, previous, current) ==
  RatReduce(RatAdd(RatMul(smoothingFactor, previous),
                   RatMul(Rat(smoothingFactor.den - smoothingFactor.num,
                              smoothingFactor.den), current)))

\* A blend that takes a missing previous entry as 0.
BlendArrayPadded(smoothingFactor, previous, current) ==
  [i \in DOMAIN current |->
     Blend(smoothingFactor,
           IF i <= Len(previous) THEN previous[i] ELSE Rat(0, 1), current[i])]

\* The loop over the new array: if (i < previous.length) blend.
BlendArray(smoothingFactor, previous, current) ==
  [i \in DOMAIN current |->
     IF i <= Len(previous) THEN Blend(smoothingFactor, previous[i], current[i])
     ELSE current[i]]

\* options.smoothing && options.smoothing > 0 && processedData
SmoothingApplies(hookOptions, processedData) ==
  /\ "smoothing" \in DOMAIN hookOptions
  /\ RatGt(hookOptions.smoothing, Rat(0, 1))
  /\ processedData # Null

\* options.smoothing as the blend reads it (read only when it applies).
SmoothingOf(hookOptions) == hookOptions.smoothing

\* A cache that is left as it was.
SaveNothing(prevValues, newProcessedData) == prevValues

\* prevValues.frequencyData = [...newProcessedData.frequencyData]; ...
SaveValues(prevValues, newProcessedData) ==
  [frequencyData |-> newProcessedData.frequencyData,
   timeData |-> newProcessedData.timeData,
   volume |-> newProcessedData.volume,
   peakLevel |-> newProcessedData.peakLevel]

\* useMemo(() => ({ frequencyData: [], timeData: [], volume: 0, peakLevel: 0 }), [])
InitialPrevValues ==
  [frequencyData |-> <<>>, timeData |-> <<>>, volume |-> Rat(0, 1),
   peakLevel |-> Rat(0, 1)]

\* An effect that derives isActive from the smoothed volume.
ProcessingEffectActiveFromSmoothed(audioData, hookOptions, processedData, prevValues) ==
  LET normalized == processAudioData(audioData, hookOptions)
      smoothingFactor == SmoothingFactor(SmoothingOf(hookOptions))
      smoothed ==
        [normalized EXCEPT
           !.frequencyData =
              BlendArray(smoothingFactor, prevValues.frequencyData, @),
           !.timeData = BlendArray(smoothingFactor, prevValues.timeData, @),
           !.volume = Blend(smoothingFactor, prevValues.volume, @),
           !.peakLevel = Blend(smoothingFactor, prevValues.peakLevel, @)]
      newProcessedData ==
        IF SmoothingApplies(hookOptions, processedData)
        THEN [smoothed EXCEPT !.isActive = IsActive(smoothed.volume)]
        ELSE normalized
  IN [processedData |-> newProcessedData,
      prevValues |-> SaveValues(prevValues, newProcessedData),
      normalized |-> normalized]

\* The body of the effect for a non-null audioData: the frame it passes
\* to setProcessedData and the cache it leaves.
ProcessingEffect(audioData, hookOptions, processedData, prevValues) ==
  LET normalized == processAudioData(audioData, hookOptions)
      smoothingFactor == SmoothingFactor(SmoothingOf(hookOptions))
      newProcessedData ==
        IF SmoothingApplies(hookOptions, processedData)
        THEN [normalized EXCEPT
                !.frequencyData =
                   BlendArray(smoothingFactor, prevValues.frequencyData, @),
                !.timeData = BlendArray(smoothingFactor, prevValues.timeData, @),
                !.volume = Blend(smoothingFactor, prevValues.volume, @),
                !.peakLevel = Blend(smoothingFactor, prevValues.peakLevel, @)]
        ELSE normalized
  IN [processedData |-> newProcessedData,
      prevValues |-> SaveValues(prevValues, newProcessedData),
      normalized |-> normalized]

\* ------------------------------------------------------------ useAudioVisualizer

\* The hook instance as one value `hook`: the five refs, the three states,
\* and what the browser holds for it: the animation-frame callbacks that
\* are scheduled, the microphone streams whose tracks are live, and the
\* buffer sources that are playing. A ref that is null is 0 (analyser,
\* stream, animation handle), "none" (context) or Null (source).

\* initializeAnalyzer(): the context is created once, in the state the
\* browser gives it; the analyser is replaced by a new one. Without
\* AudioContext the constructor throws and the error is recorded.
initializeAnalyzer(hook, supported, contextState, analyser) ==
  IF hook.audioContextRef = "none" /\ ~supported
  THEN [hook EXCEPT !.error = "browser_support"]
  ELSE [hook EXCEPT
          !.audioContextRef = IF @ = "none" THEN contextState ELSE @,
          !.analyserRef = analyser]

\* updateAudioData(): publish a frame and schedule the next call;
\* requestAnimationFrame() returns a handle no scheduled callback has.
updateAudioData(hook) ==
  IF hook.analyserRef = 0 \/ hook.audioContextRef = "none" THEN hook
  ELSE LET handle == CHOOSE h \in 1..(Cardinality(hook.pendingFrames) + 1) :
                         h \notin hook.pendingFrames
       IN [hook EXCEPT
             !.audioData = [analyser |-> hook.analyserRef,
                            source |-> hook.sourceRef],
             !.animationRef = handle,
             !.pendingFrames = @ \cup {handle}]

\* stopRecording()
stopRecording(hook) ==
  [hook EXCEPT
     !.pendingFrames = @ \ {hook.animationRef},
     !.animationRef = 0,
     !.sourceRef = Null,
     !.liveStreams = @ \ {hook.streamRef},
     !.streamRef = 0,
     !.isRecording = FALSE]

\* startRecording() up to its first await: "failed" when the analyser
\* could not be initialized (the catch block has run), else the await it
\* stops at.
startRecording_begin(hook, supported, contextState, analyser) ==
  LET h == initializeAnalyzer(hook, supported, contextState, analyser)
  IN IF h.audioContextRef = "none" \/ h.analyserRef = 0
     THEN [hook |-> [h EXCEPT !.error = "unknown", !.isRecording = FALSE],
           pc |-> "failed"]
     ELSE [hook |-> h,
           pc |-> IF h.audioContextRef = "suspended" THEN "resume"
                  ELSE "getUserMedia"]

\* startRecording() after getUserMedia() resolved with `stream`.
startRecording_granted(hook, stream) ==
  LET h == [hook EXCEPT
              !.streamRef = stream,
              !.liveStreams = @ \cup {stream},
              !.sourceRef = [kind |-> "stream", id |-> stream]]
  IN [updateAudioData(h) EXCEPT !.isRecording = TRUE, !.error = "none"]

\* startRecording() after getUserMedia() rejected: the catch block.
startRecording_rejected(hook, type) ==
  [hook EXCEPT !.error = type, !.isRecording = FALSE]

\* loadAudioFile(file) up to its first await.
loadAudioFile_begin(hook, supported, contextState, analyser) ==
  LET h == initializeAnalyzer(stopRecording(hook), supported, contextState,
                              analyser)
  IN IF h.audioContextRef = "none" \/ h.analyserRef = 0
     THEN [hook |-> [h EXCEPT !.error = "file_format"], pc |-> "failed"]
     ELSE [hook |-> h,
           pc |-> IF h.audioContextRef = "suspended" THEN "resume"
                  ELSE "read"]

\* loadAudioFile(file) after decodeAudioData() resolved: the buffer source
\* `source` is created, connected and started.
loadAudioFile_decoded(hook, source) ==
  LET h == [hook EXCEPT
              !.sourceRef = [kind |-> "buffer", id |-> source],
              !.playing = @ \cup {source}]
  IN [updateAudioData(h) EXCEPT !.isRecording = TRUE, !.error = "none"]

\* loadAudioFile(file) after the read or the decoding failed: the catch
\* block.
loadAudioFile_rejected(hook) == [hook EXCEPT !.error = "file_format"]

\* The cleanup of the unmount effect.
Cleanup(hook) ==
  [stopRecording(hook) EXCEPT
     !.audioContextRef = IF @ = "none" THEN @ ELSE "closed"]

\* ------------------------------------------------------------ inputs

\* The partial option objects a caller passes to updateOptions.
OptionPartials ==
  {EmptyObject,
   [minTimeBetweenBeats |-> 100],
   [frequencyRange |-> [low |-> 3000]],
   [frequencyRange |-> [high |-> 5000]],
   [threshold |-> Frac(30, 100), decayRate |-> 50,
    frequencyRange |-> [low |-> 3000, high |-> 5000]]}

\* The options a caller constructs a detector with: the default band, the
\* whole spectrum up to nyquist, a band of one bin, a band of three bins,
\* and a band whose low edge lies above its high edge, each with the
\* default threshold or 0; and a faster decay.
BandRanges ==
  {[low |-> 0, high |-> SampleRate \div 2],
   [low |-> 3000, high |-> 5000],
   [low |-> SampleRate \div 4, high |-> SampleRate \div 4],
   [low |-> 3000, high |-> 120]}

BandOptions ==
  {EmptyObject, [threshold |-> 0]}
    \cup {[frequencyRange |-> r] : r \in BandRanges}
    \cup {[threshold |-> 0, frequencyRange |-> r] : r \in BandRanges}
    \cup {[decayRate |-> 50,
           frequencyRange |-> [low |-> 3000, high |-> 5000]]}

\* Milliseconds between two consecutive clock readings.
ClockSteps == {100, 300}

\* Milliseconds between two frames of a stream's warm-up (a 60 Hz tick).
FramePeriod == 16

\* Milliseconds between two beats of a steady 120 BPM pulse, and the other
\* intervals a run of SpecTempo may insert.
RegularInterval == 500
IrregularIntervals == {0, 1500}

\* Sequences over S of length 0 .. n.
SeqsUpTo(S, n) == UNION {[1..k -> S] : k \in 0..n}

\* Frames for processAudioData(): byte arrays of up to MaxBins entries;
\* bufferLength is the analyser's frequencyBinCount, the length of
\* frequencyData.
MaxBins == 3
FrequencyLevels == {0, 100, 255}
TimeSamples == {0, 128, 135, 255}

ProcFrame(frequencyData, timeData) ==
  [frequencyData |-> frequencyData, timeData |-> timeData,
   bufferLength |-> Len(frequencyData),
   audioContext |-> [sampleRate |-> SampleRate]]

\* A quiet spectrum under a waveform whose mean deviation is 32/640 = 0.05.
ThresholdFrame == ProcFrame(<<0, 0, 0, 0, 0>>, <<160, 128, 128, 128, 128>>)

ProcFrames ==
  {ProcFrame(f, t) : f \in SeqsUpTo(FrequencyLevels, MaxBins),
                     t \in SeqsUpTo(TimeSamples, MaxBins)}
  \cup {ThresholdFrame}

\* DataProcessorOptions the caller may pass.
ProcessorOptions ==
  {EmptyObject, [normalize |-> FALSE], [logarithmic |-> TRUE],
   [normalize |-> FALSE, logarithmic |-> TRUE]}

\* The default bands of extractFrequencyBands() and other requests.
DefaultBands == <<60, 170, 310, 600, 1000, 3000, 6000, 12000, 14000, 16000>>
BandLists ==
  {DefaultBands, <<60>>, <<0, 22050>>, <<11025, 60>>, <<30000>>, <<0 - 100>>}

\* 1024 bins, bin i holding i mod 256.
LongMagnitudes == [i \in 1..1024 |-> (i - 1) % 256]

\* The bufferLength argument: frequencyData.length by default, or the
\* analyser's fftSize, twice as much.
BandInputs ==
  {[frequencyData |-> f, bands |-> b, sampleRate |-> SampleRate,
    bufferLength |-> k * Len(f)] :
     f \in SeqsUpTo(FrequencyLevels, MaxBins) \cup {LongMagnitudes},
     b \in BandLists, k \in {1, 2}}

SpectrumLevels == {0, 1, 2, 16}

\* Frames delivered to useProcessedAudioData(), of 1 and 2 bins, and the
\* options it is mounted with: no smoothing given, or 0, 1/4, 1/2, 2, -1.
HookFrames ==
  {ProcFrame(<<51>>, <<0>>), ProcFrame(<<0, 255>>, <<128, 192>>),
   ProcFrame(<<255, 51>>, <<64, 128>>), ProcFrame(<<0, 0>>, <<128, 128>>)}

HookOptions ==
  {EmptyObject} \cup
  {[smoothing |-> f] :
     f \in {Rat(0, 1), Rat(1, 4), Rat(1, 2), Rat(2, 1), Rat(0 - 1, 1)}}

\* Frames delivered and runs of the effect in one run of SpecHook.
MaxFrames == 2
MaxRuns == 4

\* ------------------------------------------------------------ state

VARIABLES
  audioContextRef, analyserRef, sourceRef, streamRef, animationRef,
               \* the refs of useAudioVisualizer
  vizAudioData, isRecording, error,  \* its states audioData, isRecording, error
  pendingFrames,  \* handles of the scheduled animation-frame callbacks
  liveStreams,    \* microphone streams with tracks not stopped
  playing,        \* buffer sources started and not yet ended
  inFlight,       \* startRecording/loadAudioFile calls at an await
  supported,      \* the browser has AudioContext
  mounted,        \* the component is mounted
  nOps,           \* startRecording/loadAudioFile calls made
  vizOp,          \* the last step of useAudioVisualizer
  settled,        \* stopRecording or the cleanup ran with no call at an
                  \* await, and no startRecording/loadAudioFile since
  overtaken,      \* the call that completed last had a stopRecording run
                  \* while it was at an await
  options, averageEnergy, lastBeatTime, energyHistory,  \* the BeatDetector
  now,         \* the last Date.now() reading
  result,      \* the BeatInfo the last detect() returned
  lastOp,      \* the BeatDetector operation that ran last
  arg,         \* its argument
  calls,       \* the BeatInfos of the non-null detect() calls since construction/reset
  beats,       \* times of the beats reported since construction/reset/updateOptions
  processed,   \* non-null frames detected since construction
  fresh,       \* after a reset: a new BeatDetector with the same options, fed the same input
  freshResult, \* the BeatInfo that instance returned last
  nTicks, nUpdates, nResets,  \* operations so far
  clearedBeat, \* the lastBeatTime the last reset() cleared, 0 before a reset
  beatTimes,   \* the TempoAnalyzer
  tempoOp,     \* the TempoAnalyzer operation that ran last
  tempoRet,    \* what it returned
  added,       \* the timestamps added since construction/reset
  resetFull,   \* the last TempoAnalyzer reset cleared at least 4 timestamps
  procOp,      \* the audioProcessor function that was called, "none" before the call
  procIn,      \* its arguments
  procOut,     \* what it returned
  procError,   \* the exception it threw, "none" when it returned
  hookAudio,   \* useProcessedAudioData: the audioData of the last render
  hookOptions, \* the options of the last render
  processedData, \* the state the hook returns
  prevValues,  \* the memoized cache of the previous values
  effectPending, \* a dependency of the effect changed since it last ran
  hookOp,      \* what happened last: "mount", "deliver" or "effect"
  nDelivered, nRuns, \* frames delivered and effect runs so far
  runsThisFrame, \* effect runs since the last delivery
  dataBefore,  \* processedData before the last effect run
  prevBefore,  \* prevValues before the last effect run
  normalizedNow \* what processAudioData() returned in the last effect run

detectorVars == <<options, averageEnergy, lastBeatTime, energyHistory>>

beatVars ==
  <<options, averageEnergy, lastBeatTime, energyHistory, now, result, lastOp,
    arg, calls, beats, processed, fresh, freshResult, nTicks, nUpdates, nResets,
    clearedBeat>>

tempoVars == <<beatTimes, tempoOp, tempoRet, added, resetFull>>

procVars == <<procOp, procIn, procOut, procError>>

hookVars ==
  <<hookAudio, hookOptions, processedData, prevValues, effectPending, hookOp,
    nDelivered, nRuns, runsThisFrame, dataBefore, prevBefore, normalizedNow>>

vizVars ==
  <<audioContextRef, analyserRef, sourceRef, streamRef, animationRef,
    vizAudioData, isRecording, error, pendingFrames, liveStreams, playing,
    inFlight, supported, mounted, nOps, vizOp, settled, overtaken>>

vars ==
  <<audioContextRef, analyserRef, sourceRef, streamRef, animationRef,
    vizAudioData, isRecording, error, pendingFrames, liveStreams, playing,
    inFlight, supported, mounted, nOps, vizOp, settled, overtaken,
    options, averageEnergy, lastBeatTime, energyHistory, now, result, lastOp,
    arg, calls, beats, processed, fresh, freshResult, nTicks, nUpdates, nResets,
    clearedBeat, beatTimes, tempoOp, tempoRet, added, resetFull,
    procOp, procIn, procOut, procError,
    hookAudio, hookOptions, processedData, prevValues, effectPending, hookOp,
    nDelivered, nRuns, runsThisFrame, dataBefore, prevBefore, normalizedNow>>

\* The detector instance as one value.
Self ==
  [options |-> options, averageEnergy |-> averageEnergy,
   lastBeatTime |-> lastBeatTime, energyHistory |-> energyHistory]

SetSelf(self) ==
  /\ options' = self.options
  /\ averageEnergy' = self.averageEnergy
  /\ lastBeatTime' = self.lastBeatTime
  /\ energyHistory' = self.energyHistory

NoResult ==
  [isBeat |-> FALSE, energy |-> 0, averageEnergy |-> 0, delta |-> 0, time |-> 0]

\* undefined, what a void method returns.
Undefined == 0 - 1

\* new BeatDetector(ctorOptions) and new TempoAnalyzer()
ConstructedWith(ctorOptions) ==
  /\ LET self == BeatDetector(ctorOptions)
     IN /\ options = self.options
        /\ averageEnergy = self.averageEnergy
        /\ lastBeatTime = self.lastBeatTime
        /\ energyHistory = self.energyHistory
  /\ now = ClockBase
  /\ result = NoResult
  /\ lastOp = "new"
  /\ arg = Null
  /\ calls = <<>>
  /\ beats = <<>>
  /\ processed = 0
  /\ fresh = Null
  /\ freshResult = NoResult
  /\ nTicks = 0
  /\ nUpdates = 0
  /\ nResets = 0
  /\ clearedBeat = 0
  /\ beatTimes = <<>>
  /\ tempoOp = "new"
  /\ tempoRet = Undefined
  /\ added = <<>>
  /\ resetFull = FALSE

\* new BeatDetector() and new TempoAnalyzer()
Constructed == ConstructedWith(EmptyObject)

\* No function of audioProcessor.ts called yet.
ProcIdle ==
  /\ procOp = "none"
  /\ procOut = Null
  /\ procError = "none"

\* useProcessedAudioData(null, mountOptions) rendered for the first time:
\* useState(null), the cache of useMemo, and the effect about to run.
HookMounted(mountOptions) ==
  /\ hookAudio = Null
  /\ hookOptions = mountOptions
  /\ processedData = Null
  /\ prevValues = InitialPrevValues
  /\ effectPending = TRUE
  /\ hookOp = "mount"
  /\ nDelivered = 0
  /\ nRuns = 0
  /\ runsThisFrame = 0
  /\ dataBefore = Null
  /\ prevBefore = Null
  /\ normalizedNow = Null

\* useAudioVisualizer() rendered for the first time, in a browser with or
\* without AudioContext.
VisualizerMounted(hasAudioContext) ==
  /\ audioContextRef = "none"
  /\ analyserRef = 0
  /\ sourceRef = Null
  /\ streamRef = 0
  /\ animationRef = 0
  /\ vizAudioData = Null
  /\ isRecording = FALSE
  /\ error = "none"
  /\ pendingFrames = {}
  /\ liveStreams = {}
  /\ playing = {}
  /\ inFlight = {}
  /\ supported = hasAudioContext
  /\ mounted = TRUE
  /\ nOps = 0
  /\ vizOp = "mount"
  /\ settled = FALSE
  /\ overtaken = FALSE

Init ==
  /\ Constructed
  /\ ProcIdle
  /\ procIn = Null
  /\ HookMounted(EmptyObject)
  /\ VisualizerMounted(TRUE)

\* ------------------------------------------------------------ BeatDetector actions

\* detector.detect(audioData) with Date.now() = currentTime.
Detect(audioData, currentTime) ==
  \E r \in {BeatDetector_detect(Self, audioData, currentTime)} :
     /\ SetSelf(r.self)
     /\ now' = currentTime
     /\ result' = r.ret
     /\ lastOp' = IF audioData = Null THEN "detectNull" ELSE "detect"
     /\ arg' = audioData
     /\ calls' = IF audioData = Null THEN calls ELSE Append(calls, r.ret)
     /\ beats' = IF r.ret.isBeat THEN Append(beats, currentTime) ELSE beats
     /\ processed' = IF audioData = Null THEN processed ELSE processed + 1
     /\ nTicks' = nTicks + 1
     /\ IF fresh = Null
        THEN UNCHANGED <<fresh, freshResult>>
        ELSE \E f \in {BeatDetector_detect(fresh, audioData, currentTime)} :
               fresh' = f.self /\ freshResult' = f.ret
     /\ UNCHANGED <<nUpdates, nResets, clearedBeat>>
     /\ UNCHANGED <<tempoVars, procVars, hookVars, vizVars>>

\* One tick of the caller: a frame, or no frame, at a later clock reading.
Tick ==
  /\ nTicks < MaxTicks
  /\ \E audioData \in Frames \cup {Null}, dt \in ClockSteps :
       Detect(audioData, now + dt)

Reset ==
  /\ nResets < MaxResets
  /\ SetSelf(BeatDetector_reset(Self))
  /\ lastOp' = "reset"
  /\ arg' = Null
  /\ calls' = <<>>
  /\ beats' = <<>>
  /\ fresh' = BeatDetector(options)
  /\ freshResult' = result
  /\ nResets' = nResets + 1
  /\ clearedBeat' = lastBeatTime
  /\ UNCHANGED <<now, result, processed, nTicks, nUpdates>>
  /\ UNCHANGED <<tempoVars, procVars, hookVars, vizVars>>

UpdateOptions ==
  /\ nUpdates < MaxUpdates
  /\ \E partial \in OptionPartials :
       /\ SetSelf(BeatDetector_updateOptions(Self, partial))
       /\ arg' = partial
       /\ fresh' = IF fresh = Null THEN Null
                   ELSE BeatDetector_updateOptions(fresh, partial)
  /\ lastOp' = "updateOptions"
  /\ beats' = <<>>
  /\ nUpdates' = nUpdates + 1
  /\ UNCHANGED <<now, result, calls, processed, freshResult, nTicks, nResets,
                 clearedBeat>>
  /\ UNCHANGED <<tempoVars, procVars, hookVars, vizVars>>

Next == Tick \/ Reset \/ UpdateOptions

Spec == Init /\ [][Next]_vars

\* ------------------------------------------------------------ a configured band

\* new BeatDetector(ctorOptions) for some options of the caller.
BandInit ==
  /\ \E ctorOptions \in BandOptions : ConstructedWith(ctorOptions)
  /\ ProcIdle
  /\ procIn = Null
  /\ HookMounted(EmptyObject)
  /\ VisualizerMounted(TRUE)

BandNext == Tick \/ Reset

SpecBand == BandInit /\ [][BandNext]_vars

\* ------------------------------------------------------------ the combined analyzer

\* createBeatAnalyzer() driven by a caller: up to MaxAnalyzed frames, each
\* a spike or no frame, at a clock that stands still or advances by a step
\* on either side of the default minTimeBetweenBeats.
MaxAnalyzed == 4

\* analyzeBeat(audioData) with Date.now() = now + dt.
AnalyzeBeat ==
  /\ nTicks < MaxAnalyzed
  /\ \E audioData \in {SpikeFrame, Null}, dt \in {0, 125, 251} :
       \E r \in {createBeatAnalyzer_analyzeBeat(Self, beatTimes, audioData, now + dt)} :
         /\ SetSelf(r.detector)
         /\ beatTimes' = r.analyzer
         /\ now' = now + dt
         /\ result' = r.beatInfo
         /\ tempoRet' = r.tempo
         /\ lastOp' = IF audioData = Null THEN "detectNull" ELSE "detect"
         /\ arg' = audioData
         /\ calls' = IF audioData = Null THEN calls ELSE Append(calls, r.beatInfo)
         /\ beats' = IF r.beatInfo.isBeat THEN Append(beats, now + dt) ELSE beats
         /\ added' = IF r.beatInfo.isBeat THEN Append(added, now + dt) ELSE added
         /\ processed' = IF audioData = Null THEN processed ELSE processed + 1
  /\ tempoOp' = "getTempo"
  /\ nTicks' = nTicks + 1
  /\ UNCHANGED <<fresh, freshResult, nUpdates, nResets, clearedBeat, resetFull>>
  /\ UNCHANGED <<procVars, hookVars, vizVars>>

\* reset() of the combined analyzer.
AnalyzerReset ==
  /\ nResets < MaxResets
  /\ \E r \in {createBeatAnalyzer_reset(Self, beatTimes)} :
       /\ SetSelf(r.detector)
       /\ beatTimes' = r.analyzer
  /\ lastOp' = "reset"
  /\ tempoOp' = "reset"
  /\ tempoRet' = Undefined
  /\ arg' = Null
  /\ calls' = <<>>
  /\ beats' = <<>>
  /\ added' = <<>>
  /\ resetFull' = (Len(beatTimes) >= 4)
  /\ clearedBeat' = lastBeatTime
  /\ nResets' = nResets + 1
  /\ UNCHANGED <<now, result, processed, fresh, freshResult, nTicks, nUpdates>>
  /\ UNCHANGED <<procVars, hookVars, vizVars>>

\* updateOptions(newOptions) of the combined analyzer.
AnalyzerUpdateOptions ==
  /\ nUpdates < MaxUpdates
  /\ \E newOptions \in {[minTimeBetweenBeats |-> 100]} :
       \E r \in {createBeatAnalyzer_updateOptions(Self, beatTimes, newOptions)} :
         /\ SetSelf(r.detector)
         /\ beatTimes' = r.analyzer
         /\ arg' = newOptions
  /\ lastOp' = "updateOptions"
  /\ beats' = <<>>
  /\ nUpdates' = nUpdates + 1
  /\ UNCHANGED <<now, result, calls, processed, fresh, freshResult, nTicks,
                 nResets, clearedBeat>>
  /\ UNCHANGED <<tempoOp, tempoRet, added, resetFull>>
  /\ UNCHANGED <<procVars, hookVars, vizVars>>

AnalyzerNext == AnalyzeBeat \/ AnalyzerReset \/ AnalyzerUpdateOptions

SpecAnalyzer == Init /\ [][AnalyzerNext]_vars

\* ------------------------------------------------------------ a frame stream

\* A detector fed a stream: after construction or reset the first historySize
\* frames are quiet and FramePeriod apart; any later frame is quiet or a
\* spike, at a clock step of its own.
StreamTick ==
  /\ nTicks < historySize + MaxStreamTail
  /\ IF Len(calls) < historySize
     THEN Detect(LowFrame, now + FramePeriod)
     ELSE \E audioData \in {LowFrame, SpikeFrame}, dt \in ClockSteps :
            Detect(audioData, now + dt)

\* reset() once the stream has begun to overwrite the history.
StreamReset ==
  /\ Len(calls) > historySize
  /\ Reset

StreamNext == StreamTick \/ StreamReset

SpecStream == Init /\ [][StreamNext]_vars

\* ------------------------------------------------------------ TempoAnalyzer actions

\* The intervals of `added` that are not RegularInterval.
IrregularCount ==
  Cardinality({i \in 1..(Len(added) - 1) : added[i + 1] - added[i] # RegularInterval})

\* analyzer.addBeat(time): the first timestamp is ClockBase, a later one
\* follows the last by an interval.
AddBeat ==
  /\ Len(added) < maxHistorySize + MaxOverflow
  /\ \E time \in
        IF added = <<>> THEN {ClockBase}
        ELSE {added[Len(added)] + d :
                d \in {RegularInterval} \cup
                      (IF IrregularCount < MaxIrregular THEN IrregularIntervals ELSE {})} :
       /\ beatTimes' = TempoAnalyzer_addBeat(beatTimes, time)
       /\ added' = Append(added, time)
  /\ tempoOp' = "addBeat"
  /\ tempoRet' = Undefined
  /\ UNCHANGED resetFull
  /\ UNCHANGED <<beatVars, procVars, hookVars, vizVars>>

\* analyzer.getTempo()
GetTempo ==
  /\ \E r \in {TempoAnalyzer_getTempo(beatTimes)} :
       /\ beatTimes' = r.self
       /\ tempoRet' = r.ret
  /\ tempoOp' = "getTempo"
  /\ UNCHANGED <<added, resetFull>>
  /\ UNCHANGED <<beatVars, procVars, hookVars, vizVars>>

\* analyzer.reset()
TempoReset ==
  /\ beatTimes' = TempoAnalyzer_reset(beatTimes)
  /\ tempoOp' = "reset"
  /\ tempoRet' = Undefined
  /\ added' = <<>>
  /\ resetFull' = (Len(beatTimes) >= 4)
  /\ UNCHANGED <<beatVars, procVars, hookVars, vizVars>>

TempoNext == AddBeat \/ GetTempo \/ TempoReset

SpecTempo == Init /\ [][TempoNext]_vars

\* ------------------------------------------------------------ paced beats

\* The TempoAnalyzer fed short runs of timestamps: the first one is 0 or
\* ClockBase, a later one follows the last by one of PaceIntervals.
MaxBeats == 8
PaceIntervals == {0, 7, 500, 120000}

PaceAddBeat ==
  /\ Len(added) < MaxBeats
  /\ \E time \in
        IF added = <<>> THEN {0, ClockBase}
        ELSE {added[Len(added)] + d : d \in PaceIntervals} :
       /\ beatTimes' = TempoAnalyzer_addBeat(beatTimes, time)
       /\ added' = Append(added, time)
  /\ tempoOp' = "addBeat"
  /\ tempoRet' = Undefined
  /\ UNCHANGED resetFull
  /\ UNCHANGED <<beatVars, procVars, hookVars, vizVars>>

PaceNext == PaceAddBeat \/ GetTempo \/ TempoReset

SpecPace == Init /\ [][PaceNext]_vars

\* ------------------------------------------------------------ audioProcessor calls

\* One call of a function of audioProcessor.ts: the arguments are drawn
\* first, the call then leaves its result.
ProcessInputs ==
  {[call |-> "processAudioData", audioData |-> a, options |-> o] :
     a \in ProcFrames, o \in ProcessorOptions}

ExtractInputs ==
  {[call |-> "extractFrequencyBands", frequencyData |-> i.frequencyData,
    bands |-> i.bands, sampleRate |-> i.sampleRate, bufferLength |-> i.bufferLength] :
     i \in BandInputs}

SpectrumInputs ==
  {[call |-> "calculateSpectrumCharacteristics", frequencyData |-> f,
    sampleRate |-> SampleRate] : f \in SeqsUpTo(SpectrumLevels, MaxBins)}

AudioInit ==
  /\ Constructed
  /\ ProcIdle
  /\ procIn \in ProcessInputs \cup ExtractInputs \cup SpectrumInputs
  /\ HookMounted(EmptyObject)
  /\ VisualizerMounted(TRUE)

\* processAudioData(audioData, options): no statement of it throws, and it
\* reads nothing but the arrays it is given.
Process ==
  /\ procOp = "none"
  /\ procIn.call = "processAudioData"
  /\ procOp' = "processAudioData"
  /\ procOut' = processAudioData(procIn.audioData, procIn.options)
  /\ procError' = "none"
  /\ UNCHANGED <<procIn, beatVars, tempoVars, hookVars, vizVars>>

\* extractFrequencyBands(frequencyData, bands, sampleRate, bufferLength)
ExtractBands ==
  /\ procOp = "none"
  /\ procIn.call = "extractFrequencyBands"
  /\ procOp' = "extractFrequencyBands"
  /\ procOut' = extractFrequencyBands(procIn.frequencyData, procIn.bands,
                                      procIn.sampleRate, procIn.bufferLength)
  /\ procError' = "none"
  /\ UNCHANGED <<procIn, beatVars, tempoVars, hookVars, vizVars>>

\* calculateSpectrumCharacteristics(frequencyData, sampleRate)
SpectrumShape ==
  /\ procOp = "none"
  /\ procIn.call = "calculateSpectrumCharacteristics"
  /\ procOp' = "calculateSpectrumCharacteristics"
  /\ procOut' = calculateSpectrumCharacteristics(procIn.frequencyData, procIn.sampleRate)
  /\ procError' = "none"
  /\ UNCHANGED <<procIn, beatVars, tempoVars, hookVars, vizVars>>

AudioNext == Process \/ ExtractBands \/ SpectrumShape

SpecAudio == AudioInit /\ [][AudioNext]_vars

\* ------------------------------------------------------------ useProcessedAudioData renders

HookInit ==
  /\ Constructed
  /\ ProcIdle
  /\ procIn = Null
  /\ \E mountOptions \in HookOptions : HookMounted(mountOptions)
  /\ VisualizerMounted(TRUE)

\* The parent renders the hook with a new audioData (a new object each
\* time, or null): the effect's dependency audioData has changed.
Deliver ==
  /\ nDelivered < MaxFrames
  /\ \E audioData \in HookFrames \cup {Null} : hookAudio' = audioData
  /\ effectPending' = TRUE
  /\ hookOp' = "deliver"
  /\ nDelivered' = nDelivered + 1
  /\ runsThisFrame' = 0
  /\ UNCHANGED <<hookOptions, processedData, prevValues, nRuns, dataBefore,
                 prevBefore, normalizedNow>>
  /\ UNCHANGED <<beatVars, tempoVars, procVars, vizVars>>

\* The effect runs after a render in which one of [audioData, options,
\* prevValues, processedData] changed. For a null audioData it returns at
\* once. Otherwise it ends in setProcessedData(newProcessedData): a new
\* object, so the state changes, the hook renders again and the dependency
\* processedData has changed.
RunEffect ==
  /\ effectPending
  /\ nRuns < MaxRuns
  /\ IF hookAudio = Null
     THEN /\ effectPending' = FALSE
          /\ UNCHANGED <<processedData, prevValues, normalizedNow>>
     ELSE \E r \in {ProcessingEffect(hookAudio, hookOptions, processedData, prevValues)} :
            /\ processedData' = r.processedData
            /\ prevValues' = r.prevValues
            /\ normalizedNow' = r.normalized
            /\ effectPending' = TRUE
  /\ hookOp' = "effect"
  /\ nRuns' = nRuns + 1
  /\ runsThisFrame' = runsThisFrame + 1
  /\ dataBefore' = processedData
  /\ prevBefore' = prevValues
  /\ UNCHANGED <<hookAudio, hookOptions, nDelivered>>
  /\ UNCHANGED <<beatVars, tempoVars, procVars, vizVars>>

HookNext == Deliver \/ RunEffect

SpecHook == HookInit /\ [][HookNext]_vars

\* ------------------------------------------------------------ useAudioVisualizer calls

\* The calls a component makes on one useAudioVisualizer() and the events
\* the browser answers with. A step runs the code between two awaits; up
\* to MaxOps calls of startRecording/loadAudioFile are made.
MaxOps == 3

Viz ==
  [audioContextRef |-> audioContextRef, analyserRef |-> analyserRef,
   sourceRef |-> sourceRef, streamRef |-> streamRef,
   animationRef |-> animationRef, audioData |-> vizAudioData,
   isRecording |-> isRecording, error |-> error,
   pendingFrames |-> pendingFrames, liveStreams |-> liveStreams,
   playing |-> playing]

SetViz(hook) ==
  /\ audioContextRef' = hook.audioContextRef
  /\ analyserRef' = hook.analyserRef
  /\ sourceRef' = hook.sourceRef
  /\ streamRef' = hook.streamRef
  /\ animationRef' = hook.animationRef
  /\ vizAudioData' = hook.audioData
  /\ isRecording' = hook.isRecording
  /\ error' = hook.error
  /\ pendingFrames' = hook.pendingFrames
  /\ liveStreams' = hook.liveStreams
  /\ playing' = hook.playing

\* stopRecording() has run while the calls in flight were at an await.
Overtake(awaiting) == {[c EXCEPT !.stopped = TRUE] : c \in awaiting}

\* startRecording() is called and runs to its first await.
StartRecording ==
  /\ mounted
  /\ nOps < MaxOps
  /\ \E contextState \in {"running", "suspended"} :
       \E r \in {startRecording_begin(Viz, supported, contextState, nOps + 1)} :
         /\ SetViz(r.hook)
         /\ inFlight' = IF r.pc = "failed" THEN inFlight
                        ELSE inFlight \cup {[id |-> nOps + 1, kind |-> "start", pc |-> r.pc, stopped |-> FALSE]}
         /\ vizOp' = IF r.pc = "failed" THEN "startFailed" ELSE "startRecording"
  /\ nOps' = nOps + 1
  /\ settled' = FALSE
  /\ overtaken' = FALSE
  /\ UNCHANGED <<supported, mounted>>
  /\ UNCHANGED <<beatVars, tempoVars, procVars, hookVars>>

\* loadAudioFile(file) is called and runs to its first await.
LoadAudioFile ==
  /\ mounted
  /\ nOps < MaxOps
  /\ \E contextState \in {"running", "suspended"} :
       \E r \in {loadAudioFile_begin(Viz, supported, contextState, nOps + 1)} :
         /\ SetViz(r.hook)
         /\ inFlight' = IF r.pc = "failed" THEN Overtake(inFlight)
                        ELSE Overtake(inFlight)
                               \cup {[id |-> nOps + 1, kind |-> "load", pc |-> r.pc, stopped |-> FALSE]}
         /\ vizOp' = IF r.pc = "failed" THEN "loadFailed" ELSE "loadAudioFile"
  /\ nOps' = nOps + 1
  /\ settled' = FALSE
  /\ overtaken' = FALSE
  /\ UNCHANGED <<supported, mounted>>
  /\ UNCHANGED <<beatVars, tempoVars, procVars, hookVars>>

\* audioContext.resume() resolves: the call goes on to its next await.
Resumed ==
  /\ \E c \in inFlight :
       /\ c.pc = "resume"
       /\ inFlight' = (inFlight \ {c}) \cup
            {[c EXCEPT !.pc = IF c.kind = "start" THEN "getUserMedia" ELSE "read"]}
  /\ audioContextRef' = "running"
  /\ vizOp' = "resumed"
  /\ UNCHANGED <<analyserRef, sourceRef, streamRef, animationRef, vizAudioData,
                 isRecording, error, pendingFrames, liveStreams, playing,
                 supported, mounted, nOps, settled, overtaken>>
  /\ UNCHANGED <<beatVars, tempoVars, procVars, hookVars>>

\* getUserMedia() resolves with a new stream: startRecording() completes.
Granted ==
  /\ \E c \in inFlight :
       /\ c.pc = "getUserMedia"
       /\ SetViz(startRecording_granted(Viz, c.id))
       /\ inFlight' = inFlight \ {c}
       /\ overtaken' = c.stopped
  /\ vizOp' = "started"
  /\ UNCHANGED <<supported, mounted, nOps, settled>>
  /\ UNCHANGED <<beatVars, tempoVars, procVars, hookVars>>

\* getUserMedia() rejects: startRecording() ends in its catch block.
Rejected ==
  /\ \E c \in inFlight, type \in {"permission", "unknown"} :
       /\ c.pc = "getUserMedia"
       /\ SetViz(startRecording_rejected(Viz, type))
       /\ inFlight' = inFlight \ {c}
       /\ overtaken' = c.stopped
  /\ vizOp' = "startFailed"
  /\ UNCHANGED <<supported, mounted, nOps, settled>>
  /\ UNCHANGED <<beatVars, tempoVars, procVars, hookVars>>

\* The FileReader has read the file: decodeAudioData() is called.
FileRead ==
  /\ \E c \in inFlight :
       /\ c.pc = "read"
       /\ inFlight' = (inFlight \ {c}) \cup {[c EXCEPT !.pc = "decode"]}
  /\ vizOp' = "fileRead"
  /\ UNCHANGED <<audioContextRef, analyserRef, sourceRef, streamRef,
                 animationRef, vizAudioData, isRecording, error, pendingFrames,
                 liveStreams, playing, supported, mounted, nOps, settled,
                 overtaken>>
  /\ UNCHANGED <<beatVars, tempoVars, procVars, hookVars>>

\* decodeAudioData() resolves: loadAudioFile() completes.
Decoded ==
  /\ \E c \in inFlight :
       /\ c.pc = "decode"
       /\ SetViz(loadAudioFile_decoded(Viz, c.id))
       /\ inFlight' = inFlight \ {c}
       /\ overtaken' = c.stopped
  /\ vizOp' = "loaded"
  /\ UNCHANGED <<supported, mounted, nOps, settled>>
  /\ UNCHANGED <<beatVars, tempoVars, procVars, hookVars>>

\* The read or the decoding fails: loadAudioFile() ends in its catch block.
LoadFailed ==
  /\ \E c \in inFlight :
       /\ c.pc \in {"read", "decode"}
       /\ SetViz(loadAudioFile_rejected(Viz))
       /\ inFlight' = inFlight \ {c}
       /\ overtaken' = c.stopped
  /\ vizOp' = "loadFailed"
  /\ UNCHANGED <<supported, mounted, nOps, settled>>
  /\ UNCHANGED <<beatVars, tempoVars, procVars, hookVars>>

\* The component calls stopRecording().
StopRecording ==
  /\ mounted
  /\ SetViz(stopRecording(Viz))
  /\ inFlight' = Overtake(inFlight)
  /\ vizOp' = "stopRecording"
  /\ settled' = (inFlight = {})
  /\ UNCHANGED <<supported, mounted, nOps, overtaken>>
  /\ UNCHANGED <<beatVars, tempoVars, procVars, hookVars>>

\* A buffer source reaches the end of its buffer: onended = stopRecording.
PlaybackEnded ==
  /\ \E source \in playing :
       SetViz([stopRecording(Viz) EXCEPT !.playing = @ \ {source}])
  /\ inFlight' = Overtake(inFlight)
  /\ vizOp' = "ended"
  /\ settled' = (inFlight = {})
  /\ UNCHANGED <<supported, mounted, nOps, overtaken>>
  /\ UNCHANGED <<beatVars, tempoVars, procVars, hookVars>>

\* The browser runs a scheduled animation-frame callback.
AnimationFrame ==
  /\ \E handle \in pendingFrames :
       SetViz(updateAudioData([Viz EXCEPT !.pendingFrames = @ \ {handle}]))
  /\ vizOp' = "frame"
  /\ UNCHANGED <<inFlight, supported, mounted, nOps, settled, overtaken>>
  /\ UNCHANGED <<beatVars, tempoVars, procVars, hookVars>>

\* The component unmounts with no call at an await: the cleanup runs.
Unmount ==
  /\ mounted
  /\ inFlight = {}
  /\ SetViz(Cleanup(Viz))
  /\ mounted' = FALSE
  /\ vizOp' = "unmount"
  /\ settled' = TRUE
  /\ UNCHANGED <<inFlight, supported, nOps, overtaken>>
  /\ UNCHANGED <<beatVars, tempoVars, procVars, hookVars>>

VizInit ==
  /\ Constructed
  /\ ProcIdle
  /\ procIn = Null
  /\ HookMounted(EmptyObject)
  /\ \E hasAudioContext \in BOOLEAN : VisualizerMounted(hasAudioContext)

VizNext ==
  \/ StartRecording \/ LoadAudioFile \/ Resumed \/ Granted \/ Rejected
  \/ FileRead \/ Decoded \/ LoadFailed \/ StopRecording \/ PlaybackEnded
  \/ AnimationFrame \/ Unmount

SpecVisualizer == VizInit /\ [][VizNext]_vars

\* ------------------------------------------------------------ properties

NullInfo(time) ==
  [isBeat |-> FALSE, energy |-> 0, averageEnergy |-> 0, delta |-> 0, time |-> time]

\* The energies of a sequence of BeatInfos.
Energies(infos) == [i \in 1..Len(infos) |-> infos[i].energy]

\* Any two consecutive reported beats are more than minTimeBetweenBeats apart.
BeatsApart ==
  \A i \in 1..(Len(beats) - 1) :
    beats[i + 1] - beats[i] > options.minTimeBetweenBeats

\* A detect() on a frame reports a beat only if delta > threshold and more
\* than minTimeBetweenBeats passed since lastBeatTime, and moves lastBeatTime
\* to the clock reading exactly when it reports one.
BeatOnlyIfStep ==
  lastOp' = "detect" =>
    /\ result'.isBeat =>
         /\ Gt(result'.delta, options.threshold)
         /\ result'.time - lastBeatTime > options.minTimeBetweenBeats
    /\ lastBeatTime' = IF result'.isBeat THEN result'.time ELSE lastBeatTime

\* C1: with a non-decreasing clock and no reset/updateOptions in between,
\* detect reports a beat only if delta > threshold and now - lastBeatTime >
\* minTimeBetweenBeats, sets lastBeatTime = now exactly on a beat, and so any
\* two reported beats are more than minTimeBetweenBeats apart.
C1_Refractory == [](BeatsApart) /\ [][BeatOnlyIfStep]_vars

\* Two beats were reported with no reset/updateOptions in between.
C1_Witness == Len(beats) >= 2 /\ lastOp = "detect" /\ result.isBeat

\* C3: detect(null) returns a non-beat BeatInfo with energy, averageEnergy
\* and delta 0 and leaves energyHistory, averageEnergy, lastBeatTime and the
\* options as they were.
C3_NullIsNoOp ==
  [][lastOp' = "detectNull" =>
       /\ result' = NullInfo(now')
       /\ UNCHANGED detectorVars]_vars

\* detect(null) ran on a detector that holds a non-zero history, a last beat
\* and updated options.
C3_Witness ==
  /\ lastOp = "detectNull"
  /\ averageEnergy > 0
  /\ lastBeatTime > 0
  /\ energyHistory # Zeros(historySize)
  /\ options # DefaultOptions

\* C4: reset() sets averageEnergy and lastBeatTime to 0 and energyHistory to
\* 43 zeros, and leaves every option unchanged.
C4_ResetEffect ==
  [][lastOp' = "reset" =>
       /\ averageEnergy' = 0
       /\ lastBeatTime' = 0
       /\ energyHistory' = Zeros(43)
       /\ options' = options]_vars

\* reset() ran after a beat was detected under updated options.
C4_Witness ==
  /\ lastOp = "reset"
  /\ result.isBeat
  /\ options.threshold # DefaultOptions.threshold
  /\ options.frequencyRange # DefaultOptions.frequencyRange

\* C5: after reset(), every detect() returns the BeatInfo that a new
\* detector with the same options returns when fed the same frames at the
\* same clock readings.
C5_ResetEqualsFresh == fresh # Null => freshResult = result

\* A detector that had processed frames was reset and has since reported a
\* beat on its second frame.
C5_Witness ==
  /\ fresh # Null
  /\ processed > Len(calls)
  /\ Len(calls) >= 2
  /\ lastOp = "detect"
  /\ result.isBeat

\* C6: updateOptions(partial) gives every provided option the provided
\* value and keeps every other one, frequencyRange.low and .high each on its
\* own, and leaves energyHistory, averageEnergy and lastBeatTime unchanged.
C6_UpdateIsFieldwiseMerge ==
  [][lastOp' = "updateOptions" =>
       /\ DOMAIN options' = DOMAIN options
       /\ \A k \in {"threshold", "decayRate", "minTimeBetweenBeats"} :
            options'[k] = IF k \in DOMAIN arg' THEN arg'[k] ELSE options[k]
       /\ DOMAIN options'.frequencyRange = {"low", "high"}
       /\ \A k \in {"low", "high"} :
            options'.frequencyRange[k] =
              IF "frequencyRange" \in DOMAIN arg' /\ k \in DOMAIN arg'.frequencyRange
              THEN arg'.frequencyRange[k]
              ELSE options.frequencyRange[k]
       /\ UNCHANGED <<energyHistory, averageEnergy, lastBeatTime>>]_vars

\* updateOptions ran with only frequencyRange.low provided, on a detector
\* that holds a history and a last beat.
C6_Witness ==
  /\ lastOp = "updateOptions"
  /\ arg = [frequencyRange |-> [low |-> 3000]]
  /\ options.frequencyRange = [low |-> 3000, high |-> 120]
  /\ lastBeatTime > 0
  /\ averageEnergy > 0

\* The band energy of a frame whose bins all hold `level`, on a fresh detector.
FlatEnergy(level) == BandEnergy(BeatDetector(EmptyObject), FlatFrame(level))

\* The stream since construction/reset is the refractory scenario: the
\* warm-up of 43 quiet frames, then three spikes, the second 100 ms and the
\* third 400 ms after the first.
RefractoryScenario ==
  /\ options = DefaultOptions
  /\ Len(calls) = historySize + 3
  /\ \A i \in 1..historySize : calls[i].energy = FlatEnergy(LowLevel)
  /\ \A i \in 1..3 : calls[historySize + i].energy = FlatEnergy(SpikeLevel)
  /\ calls[historySize + 2].time = calls[historySize + 1].time + 100
  /\ calls[historySize + 3].time = calls[historySize + 1].time + 400

\* A frame whose delta exceeds the threshold, more than minTimeBetweenBeats
\* after lastBeatTime, is reported as a beat.
BeatIfStep ==
  (/\ lastOp' = "detect"
   /\ Gt(result'.delta, options.threshold)
   /\ result'.time - lastBeatTime > options.minTimeBetweenBeats)
    => result'.isBeat

\* C2: the refractory scenario reports exactly 2 beats, the first and the
\* third spike; and any frame whose delta exceeds the threshold and that
\* arrives more than minTimeBetweenBeats after the last beat is a beat.
C2_RefractoryScenario ==
  /\ [](RefractoryScenario =>
          beats = <<calls[historySize + 1].time, calls[historySize + 3].time>>)
  /\ [][BeatIfStep]_vars

\* The scenario ran to its third spike: the second spike, whose delta
\* exceeded the threshold, was not reported.
C2_Witness ==
  /\ RefractoryScenario
  /\ Gt(calls[historySize + 2].delta, options.threshold)
  /\ ~calls[historySize + 2].isBeat
  /\ Len(beats) = 2

\* C7: energyHistory always has 43 entries: the energies of the most recent
\* min(n, 43) non-null detect calls since construction/reset in arrival
\* order, behind leading zeros.
C7_HistoryWindow ==
  /\ Len(energyHistory) = 43
  /\ energyHistory = LastN(Zeros(43) \o Energies(calls), 43)

\* More than 43 frames were detected, so the oldest entries were
\* overwritten, and the window holds two different energies.
C7_Witness ==
  /\ Len(calls) > 43
  /\ energyHistory[1] # 0
  /\ energyHistory[43] # energyHistory[1]

\* C8: beatTimes holds at most 24 entries: the last min(n, 24) timestamps
\* added since construction/reset, in insertion order.
C8_BeatTimesWindow ==
  /\ Len(beatTimes) <= 24
  /\ beatTimes = LastN(added, 24)

\* More than 24 timestamps were added after a reset, so the oldest were dropped.
C8_Witness == resetFull /\ Len(added) > 24 /\ beatTimes[1] = added[Len(added) - 23]

\* C9: getTempo() leaves beatTimes unchanged, and a getTempo() right after
\* a getTempo() returns the same value.
C9_GetTempoIsPureRead ==
  [][tempoOp' = "getTempo" =>
       /\ beatTimes' = beatTimes
       /\ (tempoOp = "getTempo" => tempoRet' = tempoRet)]_vars

\* getTempo() returned a tempo from a full history.
C9_Witness ==
  tempoOp = "getTempo" /\ Len(beatTimes) = maxHistorySize /\ tempoRet > 0

\* C10: getTempo() returns 0 whenever fewer than 4 timestamps have been
\* added since construction or the last reset.
C10_TempoNeedsFourBeats ==
  (tempoOp = "getTempo" /\ Len(added) < 4) => tempoRet = 0

\* After a reset that cleared a history getTempo() answered from, three
\* timestamps were added and getTempo() returned 0.
C10_Witness ==
  resetFull /\ tempoOp = "getTempo" /\ Len(added) = 3 /\ tempoRet = 0

\* r is num / den rounded to the nearest integer, halves upwards (den > 0).
IsRounded(r, num, den) ==
  (2 * r - 1) * den <= 2 * num /\ 2 * num < (2 * r + 1) * den

\* The timestamps follow each other by d.
EvenlySpaced(times, d) ==
  \A i \in 1..(Len(times) - 1) : times[i + 1] - times[i] = d

\* C11: once at least 4 timestamps evenly spaced by d > 0 ms are recorded,
\* getTempo() returns 60000 / d rounded to the nearest integer; the
\* timestamps 0, 500, 1000, 1500 give 120.
C11_TempoExactness ==
  (tempoOp = "getTempo" /\ Len(added) >= 4) =>
    /\ \A d \in PaceIntervals :
         (d > 0 /\ EvenlySpaced(added, d)) => IsRounded(tempoRet, 60000, d)
    /\ added = <<0, 500, 1000, 1500>> => tempoRet = 120

C11_Witness ==
  tempoOp = "getTempo" /\ added = <<0, 500, 1000, 1500>> /\ tempoRet = 120

\* The reference computation of the tempo, stated on the intervals as a
\* collection: order statistics by counting, the kept intervals as a set of
\* positions.
RefIntervals(times) == [i \in 1..(Len(times) - 1) |-> times[i + 1] - times[i]]

\* The value at 0-based position k of the sorted intervals.
RefOrderStatistic(xs, k) ==
  CHOOSE v \in {xs[i] : i \in DOMAIN xs} :
    /\ Cardinality({i \in DOMAIN xs : xs[i] < v}) <= k
    /\ Cardinality({i \in DOMAIN xs : xs[i] <= v}) > k

\* floor(p/4 * len) for p = 1, 3: the largest k with 4 * k <= p * len.
RefQuartileIndex(len, p) ==
  CHOOSE k \in 0..len : 4 * k <= p * len /\ p * len < 4 * (k + 1)

RefKept(xs) ==
  LET Q1 == RefOrderStatistic(xs, RefQuartileIndex(Len(xs), 1))
      Q3 == RefOrderStatistic(xs, RefQuartileIndex(Len(xs), 3))
      IQR == Q3 - Q1
  IN {i \in DOMAIN xs :
        2 * xs[i] >= 2 * Q1 - 3 * IQR /\ 2 * xs[i] <= 2 * Q3 + 3 * IQR}

RECURSIVE RefSum(_, _)
RefSum(xs, positions) ==
  IF positions = {} THEN 0
  ELSE LET i == CHOOSE j \in positions : TRUE
       IN xs[i] + RefSum(xs, positions \ {i})

\* ret is what the reference computation gives for the timestamps.
IsRefTempo(ret, times) ==
  LET xs == RefIntervals(times)
      kept == RefKept(xs)
      total == RefSum(xs, kept)
  IN IF kept = {} THEN ret = 0
     ELSE IF total = 0 THEN ret = Infinity
     ELSE IF total > 0 THEN IsRounded(ret, 60000 * Cardinality(kept), total)
     ELSE IsRounded(ret, 0 - 60000 * Cardinality(kept), 0 - total)

\* C12: for n >= 4 stored timestamps getTempo() equals the reference
\* computation: quartiles of the sorted intervals at floor(0.25 * len) and
\* floor(0.75 * len), the intervals within 1.5 IQR of them kept, and
\* 60000 / their mean rounded, or 0 when none is kept.
C12_TempoIsReference ==
  (tempoOp = "getTempo" /\ Len(beatTimes) >= 4) => IsRefTempo(tempoRet, beatTimes)

\* An outlier among equal intervals is left out of the mean.
C12_Witness ==
  /\ tempoOp = "getTempo"
  /\ added = <<0, 500, 1000, 1500, 2000, 122000>>
  /\ tempoRet = 120

\* A frame as the data model has it: two arrays of one length, not empty.
WellFormed(audioData) ==
  /\ Len(audioData.frequencyData) > 0
  /\ Len(audioData.timeData) = Len(audioData.frequencyData)
  /\ audioData.bufferLength = Len(audioData.frequencyData)

Processed == procOp = "processAudioData"

\* C13: processAudioData() fails with a ValidationError, and produces no
\* frame, when the two arrays differ in length or one of them is empty.
C13_ValidationError ==
  (Processed /\ ~WellFormed(procIn.audioData)) =>
    (procError = "ValidationError" /\ procOut = Null)

AllEqualTo(array, v) == \A i \in DOMAIN array : array[i] = v

IsZero(x) == ~IsRatNaN(x) /\ x.num = 0

\* No NaN among the numbers of a processed frame.
AllDefined(out) ==
  /\ \A i \in DOMAIN out.frequencyData : ~IsRatNaN(out.frequencyData[i])
  /\ \A i \in DOMAIN out.timeData : ~IsRatNaN(out.timeData[i])
  /\ ~IsRatNaN(out.volume)
  /\ ~IsRatNaN(out.peakLevel)
  /\ ~IsRatNaN(out.dominant.frequency)
  /\ ~IsRatNaN(out.dominant.amplitude)

Quiescent(out) ==
  /\ IsZero(out.volume)
  /\ ~out.isActive
  /\ IsZero(out.dominant.amplitude)
  /\ AllDefined(out)

\* C14, as stated: a frame whose magnitudes and time samples are all 0
\* gives volume 0, isActive false and dominant.amplitude 0, with no
\* division by zero.
C14_SilenceAllZero ==
  (/\ Processed
   /\ WellFormed(procIn.audioData)
   /\ AllEqualTo(procIn.audioData.frequencyData, 0)
   /\ AllEqualTo(procIn.audioData.timeData, 0)) => Quiescent(procOut)

\* C14, amended: a frame whose magnitudes are all 0 and whose time samples
\* are all 128, the centre of the waveform, gives volume 0, isActive false
\* and dominant.amplitude 0, with no division by zero.
C14_Silence ==
  (/\ Processed
   /\ WellFormed(procIn.audioData)
   /\ AllEqualTo(procIn.audioData.frequencyData, 0)
   /\ AllEqualTo(procIn.audioData.timeData, 128)) => Quiescent(procOut)

C14_Witness ==
  /\ Processed
  /\ procIn.audioData.frequencyData = <<0, 0>>
  /\ procIn.audioData.timeData = <<128, 128>>
  /\ Quiescent(procOut)

\* The option as processAudioData() reads it.
OptionOr(procOptions, name, default) ==
  IF name \in DOMAIN procOptions THEN procOptions[name] ELSE default

\* A well-formed frame processed with normalize = true, logarithmic = false.
NormalizedLinear ==
  /\ Processed
  /\ WellFormed(procIn.audioData)
  /\ OptionOr(procIn.options, "normalize", TRUE)
  /\ ~OptionOr(procIn.options, "logarithmic", FALSE)

InUnitInterval(x) == ~IsRatNaN(x) /\ 0 <= x.num /\ x.num <= x.den

IsOne(x) == ~IsRatNaN(x) /\ x.num = x.den

\* The positions of the bins no other bin exceeds.
MaxPositions(array) ==
  {i \in DOMAIN array : \A j \in DOMAIN array : array[j] <= array[i]}

\* C15, as stated: with normalize = true (logarithmic = false) every output
\* level lies in [0,1] and the bin that held the maximum magnitude maps to
\* exactly 1.
C15_NormalizationBoundAnyFrame ==
  NormalizedLinear =>
    /\ \A i \in DOMAIN procOut.frequencyData : InUnitInterval(procOut.frequencyData[i])
    /\ \A i \in MaxPositions(procIn.audioData.frequencyData) :
         IsOne(procOut.frequencyData[i])

\* C15, amended: with normalize = true (logarithmic = false) every output
\* level lies in [0,1]; when the maximum magnitude is positive the bins
\* that held it map to exactly 1, and when it is 0 every level is 0.
C15_NormalizationBound ==
  NormalizedLinear =>
    /\ \A i \in DOMAIN procOut.frequencyData : InUnitInterval(procOut.frequencyData[i])
    /\ \A i \in MaxPositions(procIn.audioData.frequencyData) :
         IF procIn.audioData.frequencyData[i] > 0
         THEN IsOne(procOut.frequencyData[i])
         ELSE IsZero(procOut.frequencyData[i])

C15_Witness ==
  /\ NormalizedLinear
  /\ procIn.audioData.frequencyData = <<100, 0, 100>>
  /\ procOut.frequencyData = <<Rat(100, 100), Rat(0, 100), Rat(100, 100)>>

\* x is the fraction n / d (d > 0).
IsFraction(x, n, d) == ~IsRatNaN(x) /\ x.num * d = n * x.den

\* C16: dominant.index is the lowest index holding the maximum raw
\* magnitude (0 when all bins are 0), dominant.frequency is
\* index * (sampleRate / 2) / bufferLength, and dominant.amplitude and
\* peakLevel are both the maximum / 255.
C16_Dominant ==
  (Processed /\ WellFormed(procIn.audioData)) =>
    LET frequencyData == procIn.audioData.frequencyData
        index == procOut.dominant.index
    IN /\ index + 1 \in MaxPositions(frequencyData)
       /\ \A i \in MaxPositions(frequencyData) : index + 1 <= i
       /\ AllEqualTo(frequencyData, 0) => index = 0
       /\ IsFraction(procOut.dominant.frequency,
                     index * procIn.audioData.audioContext.sampleRate,
                     2 * procIn.audioData.bufferLength)
       /\ IsFraction(procOut.dominant.amplitude, frequencyData[index + 1], 255)
       /\ IsFraction(procOut.peakLevel, frequencyData[index + 1], 255)

\* The maximum is held by the bins 1 and 2: bin 1 is reported.
C16_Witness ==
  /\ Processed
  /\ procIn.audioData.frequencyData = <<100, 255, 255>>
  /\ Len(procIn.audioData.timeData) = 3
  /\ procOut.dominant.index = 1
  /\ procOut.dominant.amplitude = Rat(255, 255)

\* |s - 128| for each time sample s.
Deviations(timeData) ==
  [i \in DOMAIN timeData |->
     IF timeData[i] >= 128 THEN timeData[i] - 128 ELSE 128 - timeData[i]]

\* C17: each time sample s maps to (s / 128) - 1, within [-1,1]; volume is
\* the mean of the absolute mapped values, within [0,1]; isActive is true
\* exactly when volume > 0.05.
C17_TimeDomain ==
  (Processed /\ WellFormed(procIn.audioData)) =>
    LET timeData == procIn.audioData.timeData
        total == RefSum(Deviations(timeData), DOMAIN timeData)
    IN /\ \A i \in DOMAIN timeData :
            /\ IsFraction(procOut.timeData[i], timeData[i] - 128, 128)
            /\ 0 - procOut.timeData[i].den <= procOut.timeData[i].num
            /\ procOut.timeData[i].num <= procOut.timeData[i].den
       /\ IsFraction(procOut.volume, total, 128 * Len(timeData))
       /\ InUnitInterval(procOut.volume)
       /\ procOut.isActive <=> (20 * total > 128 * Len(timeData))

\* A volume of exactly 0.05 is not active.
C17_Witness ==
  /\ Processed
  /\ procIn.audioData = ThresholdFrame
  /\ IsFraction(procOut.volume, 1, 20)
  /\ ~procOut.isActive

\* idx is num / den rounded to the nearest integer, then clamped to
\* [0, n - 1] (den > 0).
IsClampedRound(idx, num, den, n) ==
  /\ idx \in 0..(n - 1)
  /\ idx > 0 => 2 * num >= (2 * idx - 1) * den
  /\ idx < n - 1 => 2 * num < (2 * idx + 1) * den

\* C18: extractFrequencyBands() returns one value per requested centre, in
\* request order, each the magnitude at round(centre * bufferLength /
\* nyquist) clamped to [0, bufferLength - 1], an index inside the array;
\* 60 Hz at 44100 Hz and 1024 bins reads bin 3.
C18_BandsClamped ==
  procOp = "extractFrequencyBands" =>
    /\ Len(procOut) = Len(procIn.bands)
    /\ \A i \in DOMAIN procIn.bands :
         \E idx \in 0..(Len(procIn.frequencyData) - 1) :
           /\ IsClampedRound(idx, 2 * procIn.bands[i] * procIn.bufferLength,
                             procIn.sampleRate, procIn.bufferLength)
           /\ procOut[i] = procIn.frequencyData[idx + 1]
    /\ (/\ procIn.frequencyData = LongMagnitudes
        /\ procIn.bands = <<60>>
        /\ procIn.sampleRate = 44100
        /\ procIn.bufferLength = 1024) => procOut = <<LongMagnitudes[4]>>

\* C19: with a total amplitude of 0, calculateSpectrumCharacteristics()
\* returns centroid 0, spread 0 and flatness 0; with a maximum magnitude of
\* 0, processAudioData() skips the division and returns the levels as they
\* are; neither raises an error or returns NaN or Infinity.
C19_ZeroGuards ==
  /\ (/\ procOp = "calculateSpectrumCharacteristics"
      /\ AllEqualTo(procIn.frequencyData, 0)) =>
        /\ IsZero(procOut.centroid)
        /\ IsZero(procOut.spread)
        /\ IsZero(procOut.flatness)
        /\ procError = "none"
  /\ (/\ Processed
      /\ WellFormed(procIn.audioData)
      /\ AllEqualTo(procIn.audioData.frequencyData, 0)) =>
        /\ \A i \in DOMAIN procOut.frequencyData : procOut.frequencyData[i] = Rat(0, 1)
        /\ AllDefined(procOut)
        /\ procError = "none"

C19_Witness ==
  /\ procOp = "calculateSpectrumCharacteristics"
  /\ procIn.frequencyData = <<0, 0>>
  /\ procOut = [centroid |-> Rat(0, 1), spread |-> Rat(0, 1), flatness |-> Rat(0, 1)]

\* The flatness returned is 0, is 1, is within [0,1]: a root compares with
\* 0 and 1 as the fraction under it does.
FlatnessIsZero(f) == IF "root" \in DOMAIN f THEN f.of.num = 0 ELSE f.num = 0

FlatnessIsOne(f) == "root" \in DOMAIN f /\ f.of.num = f.of.den

FlatnessInUnitInterval(f) ==
  IF "root" \in DOMAIN f THEN 0 <= f.of.num /\ f.of.num <= f.of.den ELSE f.num = 0

\* C20: for bins all equal and positive calculateSpectrumCharacteristics()
\* returns flatness 1, for a single nonzero bin among zeros it returns
\* flatness 0, and flatness always lies in [0,1].
C20_FlatnessBound ==
  procOp = "calculateSpectrumCharacteristics" =>
    LET frequencyData == procIn.frequencyData
        nonzero == {i \in DOMAIN frequencyData : frequencyData[i] > 0}
    IN /\ (/\ Len(frequencyData) > 0
           /\ frequencyData[1] > 0
           /\ AllEqualTo(frequencyData, frequencyData[1])) =>
             FlatnessIsOne(procOut.flatness)
       /\ (Cardinality(nonzero) = 1 /\ Len(frequencyData) > 1) =>
             FlatnessIsZero(procOut.flatness)
       /\ FlatnessInUnitInterval(procOut.flatness)

\* A denominator every level of SpecHook divides: x as a count of 1/Unit.
Unit == 255 * 262144

InUnits(x) == x.num * (Unit \div x.den)

\* out = f * previous + (1 - f) * current
IsBlend(out, f, previous, current) ==
  f.den * InUnits(out) = f.num * InUnits(previous) + (f.den - f.num) * InUnits(current)

IsBlendedArray(out, f, previous, current) ==
  /\ Len(out) = Len(current)
  /\ \A i \in DOMAIN current :
       i <= Len(previous) => IsBlend(out[i], f, previous[i], current[i])

\* The last effect run processed a frame.
Ran == hookOp = "effect" /\ hookAudio # Null

\* The output of the last run is the blend by f of the cache before the
\* run with what processAudioData() returned in it.
BlendedBy(f) ==
  /\ IsBlendedArray(processedData.frequencyData, f, prevBefore.frequencyData,
                    normalizedNow.frequencyData)
  /\ IsBlendedArray(processedData.timeData, f, prevBefore.timeData,
                    normalizedNow.timeData)
  /\ IsBlend(processedData.volume, f, prevBefore.volume, normalizedNow.volume)
  /\ IsBlend(processedData.peakLevel, f, prevBefore.peakLevel, normalizedNow.peakLevel)

\* C21: without a smoothing option, every frame after the first is blended
\* with the previous output by the default factor 0.5.
C21_DefaultSmoothing ==
  (Ran /\ dataBefore # Null /\ "smoothing" \notin DOMAIN hookOptions) =>
    BlendedBy(Rat(1, 2))

\* The smoothing option clamped into [0,1].
Clamped(smoothing) ==
  IF smoothing.num < 0 THEN Rat(0, 1)
  ELSE IF smoothing.num > smoothing.den THEN Rat(1, 1)
  ELSE smoothing

\* The cache holds the arrays and scalars of the frame.
CacheHolds(cache, frame) ==
  /\ cache.frequencyData = frame.frequencyData
  /\ cache.timeData = frame.timeData
  /\ cache.volume = frame.volume
  /\ cache.peakLevel = frame.peakLevel

PassesThrough(out, previous, current) ==
  /\ Len(out) = Len(current)
  /\ \A i \in DOMAIN current : i > Len(previous) => out[i] = current[i]

\* C23: when the cached previous array is shorter than the new one, only
\* the indices below the previous length are blended and the others keep
\* the value processAudioData() gave them; on the first run the output
\* arrays are processAudioData()'s, unmodified.
C23_ShorterPrevious ==
  Ran =>
    /\ PassesThrough(processedData.frequencyData, prevBefore.frequencyData,
                     normalizedNow.frequencyData)
    /\ PassesThrough(processedData.timeData, prevBefore.timeData,
                     normalizedNow.timeData)
    /\ SmoothingApplies(hookOptions, dataBefore) =>
         /\ IsBlendedArray(processedData.frequencyData,
                           Clamped(hookOptions.smoothing),
                           prevBefore.frequencyData, normalizedNow.frequencyData)
         /\ IsBlendedArray(processedData.timeData, Clamped(hookOptions.smoothing),
                           prevBefore.timeData, normalizedNow.timeData)
    /\ dataBefore = Null =>
         /\ prevBefore.frequencyData = <<>>
         /\ processedData.frequencyData = normalizedNow.frequencyData
         /\ processedData.timeData = normalizedNow.timeData

\* A frame of 2 bins after one of 1 bin: bin 0 is blended, bin 1 is not.
C23_Witness ==
  /\ Ran
  /\ hookOptions = [smoothing |-> Rat(1, 2)]
  /\ Len(prevBefore.frequencyData) = 1
  /\ normalizedNow.frequencyData = <<Rat(0, 255), Rat(255, 255)>>
  /\ processedData.frequencyData = <<Rat(1, 2), Rat(255, 255)>>

\* C25: for each frame delivered the effect processes it exactly once and
\* the hook then settles, with no state update or effect run pending until
\* the next delivery; the frame is blended into the cache once.
C25_OncePerFrame ==
  /\ runsThisFrame <= 1
  /\ (hookOp = "effect" /\ runsThisFrame = 1) => ~effectPending

\* floor(hz * bufferLength / nyquist) and ceil(hz * bufferLength / nyquist),
\* as the integers that bracket the quotient.
RefFloorBin(hz, frame) ==
  CHOOSE k \in 0..(2 * frame.bufferLength) :
    /\ k * frame.audioContext.sampleRate <= 2 * hz * frame.bufferLength
    /\ 2 * hz * frame.bufferLength < (k + 1) * frame.audioContext.sampleRate

RefCeilBin(hz, frame) ==
  CHOOSE k \in 0..(2 * frame.bufferLength) :
    /\ (k - 1) * frame.audioContext.sampleRate < 2 * hz * frame.bufferLength
    /\ 2 * hz * frame.bufferLength <= k * frame.audioContext.sampleRate

\* (magnitude / 255)^2 of each bin, in units of 1/Scale.
RefPowers(frame) ==
  [i \in DOMAIN frame.frequencyData |->
     frame.frequencyData[i] * frame.frequencyData[i] * (Scale \div (255 * 255))]

\* One detect() on a frame whose band lies inside the array computes, in
\* this order: the mean band energy, the history with that energy pushed,
\* the history mean, the decayed averageEnergy, and delta against it.
DetectIsReferenceStep ==
  lastOp' = "detect" =>
    \E lowIdx \in {RefFloorBin(options.frequencyRange.low, arg')},
       highIdx \in {RefCeilBin(options.frequencyRange.high, arg')},
       historySum \in {SumSeq(energyHistory')} :
      (lowIdx <= highIdx /\ highIdx <= arg'.bufferLength - 1) =>
        LET total == RefSum(RefPowers(arg'), (lowIdx + 1)..(highIdx + 1))
            energy == result'.energy
        IN /\ IsRounded(energy, total, highIdx - lowIdx + 1)
           /\ energyHistory' = Append(Tail(energyHistory), energy)
           /\ \E historyMean \in {historySum \div Len(energyHistory'),
                                   historySum \div Len(energyHistory') + 1} :
                /\ IsRounded(historyMean, historySum, Len(energyHistory'))
                /\ IsRounded(averageEnergy',
                             averageEnergy * options.decayRate +
                               historyMean * (100 - options.decayRate), 100)
           /\ result'.delta = energy - averageEnergy'
           /\ result'.averageEnergy = averageEnergy'

\* C24: for a non-null frame whose band indices lie inside the array,
\* detect() returns the reference computation: energy is the mean of
\* (magnitude / 255)^2 over the bins floor(low * bufferLength / nyquist) ..
\* ceil(high * bufferLength / nyquist); the energy enters the history before
\* the history mean is taken; averageEnergy becomes averageEnergy *
\* decayRate + historyMean * (1 - decayRate); delta is energy minus the
\* updated averageEnergy, which is also the averageEnergy returned.
C24_DetectIsReference == [][DetectIsReferenceStep]_vars

\* A second frame on the three bins of the band 3000 .. 5000 Hz.
C24_Witness ==
  /\ lastOp = "detect"
  /\ LowIndex(Self, arg) = 2
  /\ HighIndex(Self, arg) = 4
  /\ arg = RampFrame
  /\ options.frequencyRange = [low |-> 3000, high |-> 5000]
  /\ Len(calls) >= 2
  /\ result.energy > 0
  /\ result.averageEnergy > 0
  /\ result.delta = result.energy - averageEnergy

\* reset() zeroes lastBeatTime; with lastBeatTime 0, on a fresh instance
\* or after a reset, a frame whose delta exceeds the threshold at a clock
\* reading above minTimeBetweenBeats is reported as a beat.
ResetClearsRefractoryStep ==
  /\ lastOp' = "reset" => lastBeatTime' = 0
  /\ (/\ lastOp' = "detect"
      /\ lastBeatTime = 0
      /\ Gt(result'.delta, options.threshold)
      /\ result'.time > options.minTimeBetweenBeats) => result'.isBeat

\* C28: reset() also clears the refractory state: after a beat at t and a
\* reset(), the next frame whose delta exceeds the threshold is reported
\* as a beat even less than minTimeBetweenBeats after t, given a clock
\* reading above minTimeBetweenBeats; likewise the first such frame of a
\* fresh instance.
C28_ResetClearsRefractory == [][ResetClearsRefractoryStep]_vars

\* A beat right after a reset, within minTimeBetweenBeats of the beat the
\* reset cleared.
C28_Witness ==
  /\ lastOp = "detect"
  /\ result.isBeat
  /\ beats = <<result.time>>
  /\ clearedBeat > 0
  /\ result.time - clearedBeat <= options.minTimeBetweenBeats

\* 0 <= low <= high <= nyquist for the frame's sample rate.
ValidRange(range, frame) ==
  /\ 0 <= range.low
  /\ range.low <= range.high
  /\ 2 * range.high <= frame.audioContext.sampleRate

\* A defined number of [0, 1].
InUnitEnergy(x) == ~IsNaN(x) /\ 0 <= x /\ x <= Scale

\* C26: with 0 <= low <= high <= nyquist, detect reads only the bins
\* 0 .. bufferLength-1, and energy and averageEnergy are defined numbers
\* of [0, 1] in every reachable state.
C26_BandInsideSpectrum ==
  lastOp = "detect" /\ ValidRange(options.frequencyRange, arg) =>
    /\ 0 <= LowIndex(Self, arg)
    /\ HighIndex(Self, arg) <= arg.bufferLength - 1
    /\ InUnitEnergy(result.energy)
    /\ InUnitEnergy(result.averageEnergy)
    /\ InUnitEnergy(averageEnergy)
    /\ \A i \in 1..historySize : InUnitEnergy(energyHistory[i])

\* highIdx < lowIdx for the configured band and the frame.
Degenerate(self, frame) == HighIndex(self, frame) < LowIndex(self, frame)

\* C27: when the configured range gives highIdx < lowIdx, detect sums
\* nothing: energy is 0 on every frame, that 0 is pushed into the history,
\* and with a threshold >= 0 no beat is reported.
C27_DegenerateBand ==
  lastOp = "detect" /\ Degenerate(Self, arg) =>
    /\ result.energy = 0
    /\ energyHistory[historySize] = 0
    /\ options.threshold >= 0 => ~result.isBeat

\* A degenerate band met with threshold 0 and a frame whose bins between
\* the two indices are not silent.
C27_Witness ==
  /\ lastOp = "detect"
  /\ Degenerate(Self, arg)
  /\ options.threshold = 0
  /\ \E i \in HighIndex(Self, arg)..LowIndex(Self, arg) : BinPower(arg, i) > 0
  /\ result.energy = 0
  /\ ~result.isBeat

\* C29: for addBeat calls with non-decreasing timestamps, equal ones
\* included, getTempo() returns a finite non-negative integer, never
\* Infinity or NaN.
C29_TempoIsFinite ==
  tempoOp = "getTempo" => (tempoRet >= 0 /\ tempoRet # Infinity)

\* The intervals at the two quartile positions of the sorted intervals.
RefQuartile(xs, p) == RefOrderStatistic(xs, RefQuartileIndex(Len(xs), p))

\* C30: with at least 4 timestamps stored, the outlier filter of getTempo()
\* keeps at least one interval: the intervals at the Q1 and Q3 positions
\* are among those it keeps.
C30_FilterKeepsQuartiles ==
  (tempoOp = "getTempo" /\ Len(beatTimes) >= 4) =>
    LET xs == Intervals(beatTimes)
        kept == FilteredIntervals(xs)
        values == {kept[i] : i \in DOMAIN kept}
    IN /\ Len(kept) >= 1
       /\ RefQuartile(xs, 1) \in values
       /\ RefQuartile(xs, 3) \in values

\* The filter drops an outlier while both quartiles are the same interval,
\* so that the two bounds coincide with the intervals it keeps.
C30_Witness ==
  /\ tempoOp = "getTempo"
  /\ Len(beatTimes) >= 4
  /\ LET xs == Intervals(beatTimes)
     IN /\ RefQuartile(xs, 1) = RefQuartile(xs, 3)
        /\ Len(FilteredIntervals(xs)) >= 1
        /\ Len(FilteredIntervals(xs)) < Len(xs)

\* The tempo of an analyzeBeat result, for the timestamps `times` held when
\* it is computed.
IsTempoOf(ret, times) ==
  IF Len(times) < 4 THEN ret = 0 ELSE IsRefTempo(ret, times)

\* One call on the combined analyzer.
AnalyzerStep ==
  /\ (lastOp' = "detect" /\ result'.isBeat) =>
       /\ result'.time = now'
       /\ beatTimes' = LastN(Append(beatTimes, result'.time), maxHistorySize)
       /\ IsTempoOf(tempoRet', beatTimes')
  /\ (lastOp' \in {"detect", "detectNull"} /\ ~result'.isBeat) =>
       /\ beatTimes' = beatTimes
       /\ IsTempoOf(tempoRet', beatTimes)
  /\ lastOp' = "reset" =>
       /\ beatTimes' = <<>>
       /\ averageEnergy' = 0
       /\ lastBeatTime' = 0
       /\ energyHistory' = Zeros(historySize)
       /\ options' = options
  /\ lastOp' = "updateOptions" =>
       /\ beatTimes' = beatTimes
       /\ UNCHANGED <<averageEnergy, lastBeatTime, energyHistory>>

\* C31: in the combined analyzer a frame reported as a beat appends that
\* beat's timestamp to the tempo history before the tempo of the same
\* result is computed; a non-beat or null frame appends nothing; reset()
\* clears the detector state and the tempo history; updateOptions changes
\* only the detector's options.
C31_AnalyzerWiring == [][AnalyzerStep]_vars

\* The fourth beat: its result already carries a tempo, which three
\* timestamps could not give.
C31_Witness ==
  /\ lastOp = "detect"
  /\ result.isBeat
  /\ Len(beatTimes) = 4
  /\ beatTimes[4] = result.time
  /\ tempoRet > 0
  /\ tempoRet # Infinity

\* The options are the defaults and were never updated.
DefaultsKept == nUpdates = 0 /\ options = DefaultOptions

\* C32: in the combined analyzer with the default options and a clock
\* that never runs backwards, the timestamps of the tempo history are
\* strictly increasing with consecutive gaps above 250 ms, and every
\* tempo analyzeBeat returns is 0 or at most 240.
C32_TempoAtMost240 ==
  DefaultsKept =>
    /\ \A i \in 1..(Len(beatTimes) - 1) : beatTimes[i + 1] - beatTimes[i] > 250
    /\ tempoOp = "getTempo" => (0 <= tempoRet /\ tempoRet <= 240)

\* Four beats, each 251 ms after the last, give 239 beats per minute.
C32_Witness ==
  /\ DefaultsKept
  /\ tempoOp = "getTempo"
  /\ Len(beatTimes) >= 4
  /\ \A i \in 1..(Len(beatTimes) - 1) : beatTimes[i + 1] - beatTimes[i] = 251
  /\ tempoRet = 239

\* A well-formed frame processed with normalize = false, or one whose
\* magnitudes are all 0.
NotNormalized ==
  /\ Processed
  /\ WellFormed(procIn.audioData)
  /\ \/ ~OptionOr(procIn.options, "normalize", TRUE)
     \/ AllEqualTo(procIn.audioData.frequencyData, 0)

\* The output levels are the raw magnitudes, element for element.
LevelsAreRaw ==
  /\ Len(procOut.frequencyData) = Len(procIn.audioData.frequencyData)
  /\ \A i \in DOMAIN procOut.frequencyData :
       procOut.frequencyData[i] = Rat(procIn.audioData.frequencyData[i], 1)

\* C33: the logarithmic scale is applied only inside normalization: with
\* normalize = false, or a maximum magnitude of 0, the output
\* frequencyData equals the raw magnitudes element for element whatever
\* the logarithmic option is; and processAudioData leaves its input
\* arrays as they were.
C33_LogOnlyWhenNormalized ==
  /\ [](NotNormalized => LevelsAreRaw)
  /\ [][procOp' = "processAudioData" => procIn' = procIn]_vars

\* Magnitudes that are not all 0 come out raw with normalize = false and
\* logarithmic = true.
C33_Witness ==
  /\ NotNormalized
  /\ OptionOr(procIn.options, "logarithmic", FALSE)
  /\ procIn.audioData.frequencyData = <<100, 0, 255>>
  /\ procOut.frequencyData = <<Rat(100, 1), Rat(0, 1), Rat(255, 1)>>

\* The mean of |sample / 128 - 1| over the raw waveform exceeds 0.05:
\* 20 * sum |sample - 128| > 128 * length.
RawIsActive(audioData) ==
  20 * RefSum([i \in DOMAIN audioData.timeData |->
                 IF audioData.timeData[i] >= 128
                 THEN audioData.timeData[i] - 128
                 ELSE 128 - audioData.timeData[i]],
              DOMAIN audioData.timeData)
    > 128 * Len(audioData.timeData)

\* C34: smoothing blends only frequencyData, timeData, volume and
\* peakLevel: after every run of the effect the output's isActive and
\* dominant {frequency, amplitude, index} are those processAudioData()
\* computes for the current raw frame; isActive follows the raw volume,
\* not the smoothed volume returned with it.
C34_SmoothingLeavesFlags ==
  Ran =>
    /\ normalizedNow = processAudioData(hookAudio, hookOptions)
    /\ processedData.dominant = normalizedNow.dominant
    /\ processedData.isActive = normalizedNow.isActive
    /\ processedData.isActive = RawIsActive(hookAudio)

\* A silent frame after a loud one: the smoothed volume is above the
\* activity threshold while isActive is false.
C34_Witness ==
  /\ Ran
  /\ dataBefore # Null
  /\ ~RawIsActive(hookAudio)
  /\ ~processedData.isActive
  /\ RatGt(processedData.volume, Rat(1, 20))
  /\ processedData.dominant.index = 0

\* A stopRecording() called with no startRecording/loadAudioFile at an
\* await: the scheduled frame is cancelled, the source and the stream are
\* released, isRecording is false; audioData, the analyser and the context
\* are as before; and a second call in a row changes nothing.
StopReleases ==
  (vizOp' = "stopRecording" /\ inFlight = {}) =>
    /\ animationRef' = 0
    /\ animationRef \notin pendingFrames'
    /\ sourceRef' = Null
    /\ streamRef' = 0
    /\ streamRef \notin liveStreams'
    /\ ~isRecording'
    /\ UNCHANGED <<vizAudioData, analyserRef, audioContextRef>>
    /\ vizOp = "stopRecording" =>
         UNCHANGED <<sourceRef, streamRef, animationRef, isRecording, error,
                     pendingFrames, liveStreams, playing>>

\* Once stopRecording() has run so, no frame callback publishes audioData
\* until the next startRecording/loadAudioFile.
StopEndsUpdates == settled => vizOp' # "frame"

\* C35: stopRecording, called with no start/load in flight, cancels the
\* pending animation frame, disconnects and clears the source, stops and
\* clears the held stream and sets isRecording to false; afterwards
\* audioData is not updated until the next startRecording/loadAudioFile;
\* audioData, the analyser and the context are left untouched; calling it
\* again is a no-op.
C35_StopRecording == [][StopReleases /\ StopEndsUpdates]_vars

\* C36: at most one animation-frame loop is scheduled at any time, under
\* every interleaving of startRecording, loadAudioFile and stopRecording,
\* so that one stopRecording ends all audioData updates.
C36_OneLoop ==
  /\ Cardinality(pendingFrames) <= 1
  /\ settled => pendingFrames = {}

\* No call at an await and not recording: nothing is scheduled or held.
IdleIsReleased ==
  (inFlight = {} /\ ~isRecording) =>
    (pendingFrames = {} /\ sourceRef = Null /\ streamRef = 0)

\* A startRecording() overtaken by a stopRecording() while it awaited
\* completes without recording.
StoppedStartStaysStopped ==
  (vizOp = "started" /\ overtaken /\ inFlight = {}) => ~isRecording

\* A startRecording() that failed leaves no loop scheduled.
FailedStartLeavesNoLoop ==
  (vizOp = "startFailed" /\ inFlight = {}) => pendingFrames = {}

\* C37: in every quiescent state isRecording = false implies that no
\* loop is scheduled, no source is connected and no stream is held; a
\* stopRecording issued while startRecording awaits leaves the hook not
\* recording once the start completes; a failed start leaves no loop
\* running.
C37_IdleWhenNotRecording ==
  IdleIsReleased /\ StoppedStartStaysStopped /\ FailedStartLeavesNoLoop

\* C38: every stream startRecording obtained has its tracks stopped once
\* a later stopRecording, or the unmount cleanup, has run with no call in
\* flight.
C38_NoStreamLeak == settled => liveStreams = {}

\* loadAudioFile() begins by stopping the current recording.
LoadStopsFirst ==
  (vizOp' = "loadAudioFile" \/ (vizOp' = "loadFailed" /\ nOps' > nOps)) =>
    /\ animationRef \notin pendingFrames'
    /\ streamRef \notin liveStreams'
    /\ vizOp' = "loadAudioFile" =>
         (animationRef' = 0 /\ sourceRef' = Null /\ streamRef' = 0)

LoadSucceeds == vizOp = "loaded" => (isRecording /\ error = "none")

PlaybackEndStops ==
  (vizOp = "ended" /\ inFlight = {}) => (~isRecording /\ pendingFrames = {})

LoadFails == vizOp = "loadFailed" => (error = "file_format" /\ ~isRecording)

\* C39: loadAudioFile first stops the current recording, loop, source and
\* stream; on success isRecording is true and error is cleared; when the
\* playback ends stopRecording runs, isRecording is false and the updates
\* stop; on a failure error has the type file_format and isRecording
\* stays false.
C39_LoadAudioFile ==
  /\ [][LoadStopsFirst]_vars
  /\ [](LoadSucceeds /\ PlaybackEndStops /\ LoadFails)

====
